---- MODULE Spec2Model ----
(***************************************************************************)
(* A model of the vector / normal core of cgmath: the fixed-arity types    *)
(* VectorN<S> and NormalN<S> (N = 1..4) that src/vector.rs and             *)
(* src/normal.rs declare, and the operations macros.rs generates for them  *)
(* (indexing, array and tuple conversions, views, arithmetic).             *)
(*                                                                         *)
(* Two values of one type live in a flat memory of scalar cells: `a` at    *)
(* AddrA and `b` at AddrB.  A #[repr(C)] struct of N fields of one scalar  *)
(* type, an array [S; N] and a homogeneous N-tuple are N consecutive       *)
(* cells; a reference is a typed address, and mem::transmute of a          *)
(* reference keeps the address and changes the type.  The scalar type is   *)
(* i8: eight bits, overflow either aborts (overflow checks on) or wraps.   *)
(***************************************************************************)
EXTENDS Integers, Sequences, FiniteSets, TLC

VARIABLES
    n,        \* the arity N of the two values, 1..4
    fam,      \* the family of the two values: "Vector" or "Normal"
    mem,      \* the memory: address -> scalar
    shadow,   \* history: per position of a, the value last written to it,
              \*          or a's initial component when never written
    op,       \* the operation executed last
    arg,      \* its arguments
    res       \* its result

vars == <<n, fam, mem, shadow, op, arg, res>>

----------------------------------------------------------------------------
(* Bounds and inputs *)

\* indices tried range over 0..MaxIndex: every valid index of every arity and
\* at least one index behind the last
MaxIndex == 4

\* the arities the macros are instantiated for (impl_vector!(Vector4 .., 4, ..))
MaxArity == 4

\* the scalar type modelled is i8
Bits == 8

ScalarMin == -(2 ^ (Bits - 1))
ScalarMax == (2 ^ (Bits - 1)) - 1

\* scalar inputs: both ends of the type and zero
Inputs == {ScalarMin, 0, ScalarMax}

Families == {"Vector", "Normal"}

----------------------------------------------------------------------------
(* Results: an operation returns a value or panics *)

Ok(v) == [ok |-> TRUE, val |-> v]
Panic == [ok |-> FALSE]

----------------------------------------------------------------------------
(* The types *)

\* the fields of the structs in declared order
FieldNames == <<"x", "y", "z", "w">>

Fields(k) == {FieldNames[i] : i \in 1..k}

\* the position of a field in the field list, from 1
FieldPos(f) == CHOOSE i \in 1..MaxArity : FieldNames[i] = f

\* the offset of a field in scalar cells from the start of the struct: with
\* #[repr(C)] and fields of one type, the fields before it
FieldOffset(f) == FieldPos(f) - 1

\* the $index the conversion macros are given for every field
FieldIndex(f) ==
    CASE f = "x" -> 0
      [] f = "y" -> 1
      [] f = "z" -> 2
      [] f = "w" -> 3

\* the fields of a tuple, .0 .1 .2 .3
TupleNames == <<"0", "1", "2", "3">>

TupleFields(k) == {TupleNames[i] : i \in 1..k}

TuplePos(t) == CHOOSE j \in 1..MaxArity : TupleNames[j] = t

\* the offset of a tuple field in scalar cells: a tuple of N fields of one
\* type is laid out in field order
TupleOffset(t) == TuplePos(t) - 1

TypeOf(family, k) == <<family, k>>

Arity(v) == v.ty[2]

\* $VectorN::new: the struct built from its components
new(ty, comps) ==
    [f \in {"ty"} \cup DOMAIN comps |-> IF f = "ty" THEN ty ELSE comps[f]]

\* component i of a value, by field
Comp(v, i) == v[FieldNames[i + 1]]

----------------------------------------------------------------------------
(* Memory and references *)

\* where the two values live: a first, b right behind it
AddrA == 0
AddrB == n

Cells == 0..(2 * n - 1)

\* (mutation) the fields laid out in the reverse of the declared order
LoadReversed(m, ty, p) ==
    new(ty, [f \in Fields(ty[2]) |-> m[p + (ty[2] - 1 - FieldOffset(f))]])

\* the value behind a reference to a struct: field f is read at its offset
Load(m, ty, p) ==
    new(ty, [f \in Fields(ty[2]) |-> m[p + FieldOffset(f)]])

\* the array behind a reference to [S; k]: element i is cell i
ArrayAt(m, p, k) == [i \in 1..k |-> m[p + (i - 1)]]

\* the tuple behind a reference to an N-tuple
TupleAt(m, p, k) ==
    [t \in TupleFields(k) |-> m[p + TupleOffset(t)]]

\* the cells a value of arity k at address p is stored in, in field order
Store(m, p, v) ==
    [c \in DOMAIN m |->
        IF c \in p..(p + Arity(v) - 1) THEN Comp(v, c - p) ELSE m[c]]

\* (mutation) the mutable view starts one cell late
as_mut_array_shifted(p, k) == [kind |-> "array", ptr |-> p + 1, len |-> k]

\* AsRef<[S; n]> / AsMut<[S; n]>: transmute(self), the same address as an array
as_ref_array(p, k) == [kind |-> "array", ptr |-> p, len |-> k]

as_mut_array(p, k) == [kind |-> "array", ptr |-> p, len |-> k]

\* AsRef<$Tuple> / AsMut<$Tuple>: transmute(self), the same address as a tuple
as_ref_tuple(p, k) == [kind |-> "tuple", ptr |-> p, len |-> k]

as_mut_tuple(p, k) == [kind |-> "tuple", ptr |-> p, len |-> k]

\* From<&[S; n]> and From<&$Tuple> for &VectorN: transmute(v), the same
\* address as a struct
from_ref(r) == [kind |-> "struct", ptr |-> r.ptr, len |-> r.len]

\* (mutation) an index behind the end is clamped to the last element
ElementPlaceClamped(view, i) ==
    Ok(view.ptr + (IF i < view.len THEN i ELSE view.len - 1))

\* v[i] on an array or slice: the place of element i, a panic when i >= len
ElementPlace(view, i) ==
    IF i < view.len THEN Ok(view.ptr + i) ELSE Panic

\* v[start..end] on an array: the sub-slice, a panic when the range is
\* reversed or ends behind the array
SlicePlace(view, start, end) ==
    IF start > end \/ end > view.len
    THEN Panic
    ELSE Ok([kind |-> "slice", ptr |-> view.ptr + start, len |-> end - start])

\* (mutation) the read is one element off
index_rotated(p, k, i) == IF i < k THEN Ok(p + ((i + 1) % k)) ELSE Panic

\* (mutation) every write lands in the first element
index_mut_first(p, k, i) == IF i < k THEN Ok(p) ELSE Panic

\* (mutation) v[start..] taken as v[..len - start]
index_range_from_front(p, k, start) ==
    IF start > k
    THEN Panic
    ELSE Ok([kind |-> "slice", ptr |-> p, len |-> k - start])

\* Index<usize>::index
index(p, k, i) == ElementPlace(as_ref_array(p, k), i)

\* IndexMut<usize>::index_mut
index_mut(p, k, i) == ElementPlace(as_mut_array(p, k), i)

\* Index<RangeTo<usize>>::index
index_range_to(p, k, end) == SlicePlace(as_ref_array(p, k), 0, end)

\* Index<RangeFrom<usize>>::index
index_range_from(p, k, start) == SlicePlace(as_ref_array(p, k), start, k)

\* Index<RangeFull>::index
index_range_full(p, k) == SlicePlace(as_ref_array(p, k), 0, k)

\* the elements of a slice
SliceAt(m, s) == ArrayAt(m, s.ptr, s.len)

----------------------------------------------------------------------------
(* The initial state: two values of one type in memory *)

\* the constants the unit tests use: VECTOR2 = (1, 2), VECTOR3 = (1, 2, 3),
\* VECTOR4 = (1, 2, 3, 4)
TestVector(ty) == new(ty, [f \in Fields(ty[2]) |-> FieldOffset(f) + 1])

VectorInputs(ty) ==
    {new(ty, c) : c \in [Fields(ty[2]) -> Inputs]} \cup {TestVector(ty)}

ValA == Load(mem, TypeOf(fam, n), AddrA)
ValB == Load(mem, TypeOf(fam, n), AddrB)

InitWith(va, vb) ==
    /\ mem = Store(Store([c \in Cells |-> 0], AddrA, va), AddrB, vb)
    /\ shadow = [i \in 1..n |-> Comp(va, i - 1)]
    /\ op = "new"
    /\ arg = <<>>
    /\ res = Ok(va)

Init ==
    /\ n \in 1..MaxArity
    /\ fam \in Families
    /\ \E va \in VectorInputs(TypeOf(fam, n)) :
           InitWith(va, TestVector(TypeOf(fam, n)))

----------------------------------------------------------------------------
(* Indexing *)

\* let e = a[i];
Index(i) ==
    LET r == index(AddrA, n, i) IN
    /\ op' = "index"
    /\ arg' = <<i>>
    /\ res' = IF r.ok THEN Ok(mem[r.val]) ELSE Panic
    /\ UNCHANGED <<n, fam, mem, shadow>>

\* a[i] = x;
IndexMut(i, x) ==
    LET r == index_mut(AddrA, n, i) IN
    /\ op' = "index_mut"
    /\ arg' = <<i, x>>
    /\ res' = IF r.ok THEN Ok(x) ELSE Panic
    /\ mem' = IF r.ok THEN [mem EXCEPT ![r.val] = x] ELSE mem
    /\ shadow' = IF i < n THEN [shadow EXCEPT ![i + 1] = x] ELSE shadow
    /\ UNCHANGED <<n, fam>>

\* let s = &a[..end];
IndexRangeTo(end) ==
    LET r == index_range_to(AddrA, n, end) IN
    /\ op' = "index_range_to"
    /\ arg' = <<end>>
    /\ res' = IF r.ok THEN Ok(SliceAt(mem, r.val)) ELSE Panic
    /\ UNCHANGED <<n, fam, mem, shadow>>

\* let s = &a[start..];
IndexRangeFrom(start) ==
    LET r == index_range_from(AddrA, n, start) IN
    /\ op' = "index_range_from"
    /\ arg' = <<start>>
    /\ res' = IF r.ok THEN Ok(SliceAt(mem, r.val)) ELSE Panic
    /\ UNCHANGED <<n, fam, mem, shadow>>

\* let s = &a[..];
IndexRangeFull ==
    LET r == index_range_full(AddrA, n) IN
    /\ op' = "index_range_full"
    /\ arg' = <<>>
    /\ res' = IF r.ok THEN Ok(SliceAt(mem, r.val)) ELSE Panic
    /\ UNCHANGED <<n, fam, mem, shadow>>

----------------------------------------------------------------------------
(* Conversions by value *)

\* (mutation) the array is built from the fields in reverse order
into_array_reversed(v) == [i \in 1..Arity(v) |-> v[FieldNames[Arity(v) + 1 - i]]]

\* Into<[S; n]>::into: [x, y, z, w]
into_array(v) == [i \in 1..Arity(v) |-> v[FieldNames[i]]]

\* From<[S; n]>::from: VectorN { x: v[0].clone(), y: v[1].clone(), .. }
from_array(ty, v) == new(ty, [f \in Fields(ty[2]) |-> v[FieldIndex(f) + 1]])

\* Into<$Tuple>::into: (x, y, z, w)
into_tuple(v) == [t \in TupleFields(Arity(v)) |-> v[FieldNames[TuplePos(t)]]]

\* From<$Tuple>::from: (x, y, z, w) => VectorN { x: x, y: y, .. }
from_tuple(ty, v) == new(ty, [f \in Fields(ty[2]) |-> v[TupleNames[FieldPos(f)]]])

\* let arr: [S; N] = a.into();
IntoArray ==
    /\ op' = "into_array"
    /\ arg' = <<ValA>>
    /\ res' = Ok(into_array(ValA))
    /\ UNCHANGED <<n, fam, mem, shadow>>

\* let t: (S, ..) = a.into();
IntoTuple ==
    /\ op' = "into_tuple"
    /\ arg' = <<ValA>>
    /\ res' = Ok(into_tuple(ValA))
    /\ UNCHANGED <<n, fam, mem, shadow>>

\* let v = VectorN::from(arr); for the array arr the N cells at AddrA hold
FromArray ==
    LET arr == ArrayAt(mem, AddrA, n) IN
    /\ op' = "from_array"
    /\ arg' = <<arr>>
    /\ res' = Ok(from_array(TypeOf(fam, n), arr))
    /\ UNCHANGED <<n, fam, mem, shadow>>

\* let v = VectorN::from(t); for the tuple t the N cells at AddrA hold
FromTuple ==
    LET t == TupleAt(mem, AddrA, n) IN
    /\ op' = "from_tuple"
    /\ arg' = <<t>>
    /\ res' = Ok(from_tuple(TypeOf(fam, n), t))
    /\ UNCHANGED <<n, fam, mem, shadow>>

----------------------------------------------------------------------------
(* Conversions by reference: views of the same cells *)

\* let arr: &[S; N] = a.as_ref();
AsRefArray ==
    LET view == as_ref_array(AddrA, n) IN
    /\ op' = "as_ref_array"
    /\ arg' = <<ValA>>
    /\ res' = Ok(ArrayAt(mem, view.ptr, view.len))
    /\ UNCHANGED <<n, fam, mem, shadow>>

\* let t: &(S, ..) = a.as_ref();
AsRefTuple ==
    LET view == as_ref_tuple(AddrA, n) IN
    /\ op' = "as_ref_tuple"
    /\ arg' = <<ValA>>
    /\ res' = Ok(TupleAt(mem, view.ptr, view.len))
    /\ UNCHANGED <<n, fam, mem, shadow>>

\* let v: &VectorN<_> = From::from(arr); for arr: &[S; N] at AddrA
FromRefArray ==
    LET r == [kind |-> "array", ptr |-> AddrA, len |-> n]
        v == from_ref(r)
    IN  /\ op' = "from_ref_array"
        /\ arg' = <<ArrayAt(mem, r.ptr, r.len)>>
        /\ res' = Ok(Load(mem, TypeOf(fam, v.len), v.ptr))
        /\ UNCHANGED <<n, fam, mem, shadow>>

\* let v: &VectorN<_> = From::from(t); for t: &(S, ..) at AddrA
FromRefTuple ==
    LET r == [kind |-> "tuple", ptr |-> AddrA, len |-> n]
        v == from_ref(r)
    IN  /\ op' = "from_ref_tuple"
        /\ arg' = <<TupleAt(mem, r.ptr, r.len)>>
        /\ res' = Ok(Load(mem, TypeOf(fam, v.len), v.ptr))
        /\ UNCHANGED <<n, fam, mem, shadow>>

\* { let arr: &mut [S; N] = a.as_mut(); arr[i] = x; }
AsMutArray(i, x) ==
    LET view == as_mut_array(AddrA, n)
        r == ElementPlace(view, i)
    IN  /\ op' = "as_mut_array"
        /\ arg' = <<i, x>>
        /\ res' = IF r.ok THEN Ok(x) ELSE Panic
        /\ mem' = IF r.ok THEN [mem EXCEPT ![r.val] = x] ELSE mem
        /\ shadow' = IF i < n THEN [shadow EXCEPT ![i + 1] = x] ELSE shadow
        /\ UNCHANGED <<n, fam>>

\* { let t: &mut (S, ..) = a.as_mut(); t.i = x; } for a field .i of the tuple
AsMutTuple(i, x) ==
    LET view == as_mut_tuple(AddrA, n) IN
    /\ i < n
    /\ op' = "as_mut_tuple"
    /\ arg' = <<i, x>>
    /\ res' = Ok(x)
    /\ mem' = [mem EXCEPT ![view.ptr + TupleOffset(TupleNames[i + 1])] = x]
    /\ shadow' = [shadow EXCEPT ![i + 1] = x]
    /\ UNCHANGED <<n, fam>>

Next ==
    \/ IntoArray
    \/ IntoTuple
    \/ FromArray
    \/ FromTuple
    \/ AsRefArray
    \/ AsRefTuple
    \/ FromRefArray
    \/ FromRefTuple
    \/ \E i \in 0..MaxIndex, x \in Inputs : AsMutArray(i, x)
    \/ \E i \in 0..(MaxArity - 1), x \in Inputs : AsMutTuple(i, x)
    \/ \E i \in 0..MaxIndex : Index(i)
    \/ \E i \in 0..MaxIndex, x \in Inputs : IndexMut(i, x)
    \/ \E j \in 0..MaxIndex : IndexRangeTo(j)
    \/ \E i \in 0..MaxIndex : IndexRangeFrom(i)
    \/ IndexRangeFull

Spec == Init /\ [][Next]_vars

----------------------------------------------------------------------------
(* Arithmetic *)

InRange(x) == ScalarMin <= x /\ x <= ScalarMax

\* two's complement wrap-around to the width of the scalar type
Wrap(x) == ((x - ScalarMin) % (2 ^ Bits)) + ScalarMin

\* the outcome of a primitive integer operation whose exact result is x:
\* with overflow checks (c) an overflow panics, without them it wraps
Overflowing(c, x) == IF InRange(x) THEN Ok(x) ELSE IF c THEN Panic ELSE Ok(Wrap(x))

\* S + S, S - S, S * S on the scalar type
sadd(c, x, y) == Overflowing(c, x + y)
ssub(c, x, y) == Overflowing(c, x - y)
smul(c, x, y) == Overflowing(c, x * y)

\* $VectorN::new($(..),+) of component results: a panic in any of them
\* unwinds out of the whole expression
NewOf(ty, cs) ==
    IF \A f \in DOMAIN cs : cs[f].ok
    THEN Ok(new(ty, [f \in DOMAIN cs |-> cs[f].val]))
    ELSE Panic

\* (mutation) every component adds the right operand's x
add_rhs_x(c, lhs, rhs) ==
    NewOf(lhs.ty, [f \in Fields(Arity(lhs)) |-> sadd(c, lhs[f], rhs.x)])

\* (mutation) the operands of the subtraction are exchanged
sub_exchanged(c, lhs, rhs) ==
    NewOf(lhs.ty, [f \in Fields(Arity(lhs)) |-> ssub(c, rhs[f], lhs[f])])

\* (mutation) the body of Add in the place of the body of Mul
mul_as_add(c, vector, scalar) ==
    NewOf(vector.ty, [f \in Fields(Arity(vector)) |-> sadd(c, vector[f], scalar)])

\* Add<VectorN<S>> for VectorN<S>: new(lhs.x + rhs.x, ..)
add(c, lhs, rhs) ==
    NewOf(lhs.ty, [f \in Fields(Arity(lhs)) |-> sadd(c, lhs[f], rhs[f])])

\* Sub<VectorN<S>> for VectorN<S>: new(lhs.x - rhs.x, ..)
sub(c, lhs, rhs) ==
    NewOf(lhs.ty, [f \in Fields(Arity(lhs)) |-> ssub(c, lhs[f], rhs[f])])

\* Mul<S> for VectorN<S>: new(vector.x * scalar, ..)
mul(c, vector, scalar) ==
    NewOf(vector.ty, [f \in Fields(Arity(vector)) |-> smul(c, vector[f], scalar)])

\* the second operand of the addition the specification gives as an example,
\* vec2(3, 4), and its like for the other arities
TestVectorB(ty) == new(ty, [f \in Fields(ty[2]) |-> FieldOffset(f) + 1 + ty[2]])

ScalarInputs == Inputs \cup {2}

InitArith ==
    /\ n \in 1..MaxArity
    /\ fam \in Families
    /\ \E va \in VectorInputs(TypeOf(fam, n)),
          vb \in VectorInputs(TypeOf(fam, n)) \cup {TestVectorB(TypeOf(fam, n))} :
           InitWith(va, vb)

\* The arithmetic operators take their operands by value and return a new
\* value: a behaviour applies one of them, once, to the operands Init built.
Fresh == op = "new"

\* let r = a + b;
Add(c) ==
    /\ Fresh
    /\ op' = "add"
    /\ arg' = <<c>>
    /\ res' = add(c, ValA, ValB)
    /\ UNCHANGED <<n, fam, mem, shadow>>

\* let r = a - b;
Sub(c) ==
    /\ Fresh
    /\ op' = "sub"
    /\ arg' = <<c>>
    /\ res' = sub(c, ValA, ValB)
    /\ UNCHANGED <<n, fam, mem, shadow>>

\* let r = (a + b) * s;
AddMul(c, s) ==
    LET sum == add(c, ValA, ValB) IN
    /\ Fresh
    /\ op' = "add_mul"
    /\ arg' = <<c, s>>
    /\ res' = IF sum.ok THEN mul(c, sum.val, s) ELSE Panic
    /\ UNCHANGED <<n, fam, mem, shadow>>

NextArith ==
    \/ \E c \in BOOLEAN : Add(c)
    \/ \E c \in BOOLEAN : Sub(c)
    \/ \E c \in BOOLEAN, s \in ScalarInputs : AddMul(c, s)

SpecArith == InitArith /\ [][NextArith]_vars

----------------------------------------------------------------------------
(* Constructors and changes of arity *)

\* $VectorN::new(x, y, ..) with its arguments by position: argument i
\* initialises the i-th declared field
new_positional(ty, args) ==
    new(ty, [f \in Fields(ty[2]) |-> args[FieldPos(f)]])

\* the short constructor vecN / normN: $VectorN::new(x, y, ..)
constructor(ty, args) == new_positional(ty, args)

\* (mutation) only x takes the scalar
from_value_x_only(ty, scalar) ==
    new(ty, [f \in Fields(ty[2]) |-> IF f = "x" THEN scalar ELSE 0])

\* Array::from_value: $VectorN { x: scalar, y: scalar, .. }
from_value(ty, scalar) == new(ty, [f \in Fields(ty[2]) |-> scalar])

\* unit_x() of Vector1..4 and Normal1..4
unit_x(ty) ==
    new_positional(ty, CASE ty[2] = 1 -> <<1>>
                         [] ty[2] = 2 -> <<1, 0>>
                         [] ty[2] = 3 -> <<1, 0, 0>>
                         [] ty[2] = 4 -> <<1, 0, 0, 0>>)

\* (mutation) unit_y() points along x
unit_y_along_x(ty) == unit_x(ty)

\* unit_y() of Vector2..4 and Normal2..4
unit_y(ty) ==
    new_positional(ty, CASE ty[2] = 2 -> <<0, 1>>
                         [] ty[2] = 3 -> <<0, 1, 0>>
                         [] ty[2] = 4 -> <<0, 1, 0, 0>>)

\* unit_z() of Vector3..4 and Normal3..4
unit_z(ty) ==
    new_positional(ty, CASE ty[2] = 3 -> <<0, 0, 1>>
                         [] ty[2] = 4 -> <<0, 0, 1, 0>>)

\* unit_w() of Vector4 and Normal4
unit_w(ty) == new_positional(ty, <<0, 0, 0, 1>>)

\* the unit constructor named after slot k
unit(ty, k) ==
    CASE k = 0 -> unit_x(ty)
      [] k = 1 -> unit_y(ty)
      [] k = 2 -> unit_z(ty)
      [] k = 3 -> unit_w(ty)

Units(ty) == {unit(ty, k) : k \in 0..(ty[2] - 1)}

\* (mutation) the scalar becomes the first component
extend_front(self, s) ==
    CASE Arity(self) = 2 ->
             new_positional(TypeOf(self.ty[1], 3), <<s, self.x, self.y>>)
      [] Arity(self) = 3 ->
             new_positional(TypeOf(self.ty[1], 4), <<s, self.x, self.y, self.z>>)

\* Vector2::extend, Vector3::extend, Normal2::extend, Normal3::extend
extend(self, s) ==
    CASE Arity(self) = 2 ->
             new_positional(TypeOf(self.ty[1], 3), <<self.x, self.y, s>>)
      [] Arity(self) = 3 ->
             new_positional(TypeOf(self.ty[1], 4), <<self.x, self.y, self.z, s>>)

\* Vector3::truncate, Vector4::truncate, Normal3::truncate, Normal4::truncate
truncate(self) ==
    CASE Arity(self) = 3 ->
             new_positional(TypeOf(self.ty[1], 2), <<self.x, self.y>>)
      [] Arity(self) = 4 ->
             new_positional(TypeOf(self.ty[1], 3), <<self.x, self.y, self.z>>)

\* (mutation) an index out of range drops the last component
truncate_n_clamped(self, i) ==
    LET ty == TypeOf(self.ty[1], 3) IN
    CASE i = 0 -> Ok(new_positional(ty, <<self.y, self.z, self.w>>))
      [] i = 1 -> Ok(new_positional(ty, <<self.x, self.z, self.w>>))
      [] i = 2 -> Ok(new_positional(ty, <<self.x, self.y, self.w>>))
      [] OTHER -> Ok(new_positional(ty, <<self.x, self.y, self.z>>))

\* Vector4::truncate_n, Normal4::truncate_n; the index is an isize
truncate_n(self, i) ==
    LET ty == TypeOf(self.ty[1], 3) IN
    CASE i = 0 -> Ok(new_positional(ty, <<self.y, self.z, self.w>>))
      [] i = 1 -> Ok(new_positional(ty, <<self.x, self.z, self.w>>))
      [] i = 2 -> Ok(new_positional(ty, <<self.x, self.y, self.w>>))
      [] i = 3 -> Ok(new_positional(ty, <<self.x, self.y, self.z>>))
      [] OTHER -> Panic

\* the scalar of the from_value tests that the scalar type holds
FromValueInputs == Inputs \cup {22}

\* let r = vecN(a.x, a.y, ..);
Constructor ==
    /\ Fresh
    /\ op' = "constructor"
    /\ arg' = <<[i \in 1..n |-> Comp(ValA, i - 1)]>>
    /\ res' = Ok(constructor(TypeOf(fam, n), [i \in 1..n |-> Comp(ValA, i - 1)]))
    /\ UNCHANGED <<n, fam, mem, shadow>>

\* let r = VectorN::from_value(s);
FromValue(s) ==
    /\ Fresh
    /\ op' = "from_value"
    /\ arg' = <<s>>
    /\ res' = Ok(from_value(TypeOf(fam, n), s))
    /\ UNCHANGED <<n, fam, mem, shadow>>

\* let r = VectorN::unit_x();  (unit_y, unit_z, unit_w): the slot is one the
\* arity has
Unit(k) ==
    /\ Fresh /\ k < n
    /\ op' = "unit"
    /\ arg' = <<k>>
    /\ res' = Ok(unit(TypeOf(fam, n), k))
    /\ UNCHANGED <<n, fam, mem, shadow>>

\* let r = a.extend(s);   a of arity 2 or 3
Extend(s) ==
    /\ Fresh /\ n \in {2, 3}
    /\ op' = "extend"
    /\ arg' = <<s>>
    /\ res' = Ok(extend(ValA, s))
    /\ UNCHANGED <<n, fam, mem, shadow>>

\* let r = a.truncate();   a of arity 3 or 4
Truncate ==
    /\ Fresh /\ n \in {3, 4}
    /\ op' = "truncate"
    /\ arg' = <<>>
    /\ res' = Ok(truncate(ValA))
    /\ UNCHANGED <<n, fam, mem, shadow>>

\* let r = a.truncate_n(i);   a of arity 4
TruncateN(i) ==
    /\ Fresh /\ n = 4
    /\ op' = "truncate_n"
    /\ arg' = <<i>>
    /\ res' = truncate_n(ValA, i)
    /\ UNCHANGED <<n, fam, mem, shadow>>

NextShape ==
    \/ Constructor
    \/ \E s \in FromValueInputs : FromValue(s)
    \/ \E k \in 0..(MaxArity - 1) : Unit(k)
    \/ \E s \in ScalarInputs : Extend(s)
    \/ Truncate
    \/ \E i \in (0 - MaxIndex)..MaxIndex : TruncateN(i)

SpecShape == Init /\ [][NextShape]_vars

----------------------------------------------------------------------------
(* Products *)

\* -S on the scalar type
sneg(c, x) == Overflowing(c, 0 - x)

\* (p * q) - (r * s) on the scalar type: both products, then the difference
MulSubMul(c, p, q, r, s) ==
    LET l == smul(c, p, q)
        m == smul(c, r, s)
    IN  IF l.ok /\ m.ok THEN ssub(c, l.val, m.val) ELSE Panic

\* PartialOrd::partial_min, PartialOrd::partial_max on an integer scalar: the
\* smaller and the larger of the two
partial_min(x, y) == IF x < y THEN x ELSE y
partial_max(x, y) == IF x > y THEN x ELSE y

\* $x.$method($y): the method of the scalar type a fold is given, applied to
\* what has been folded so far and the next element
method_call(method, c, acc, y) ==
    IF acc.ok
    THEN CASE method = "add" -> sadd(c, acc.val, y)
           [] method = "mul" -> smul(c, acc.val, y)
           [] method = "partial_min" -> Ok(partial_min(acc.val, y))
           [] method = "partial_max" -> Ok(partial_max(acc.val, y))
    ELSE Panic

\* (mutation) the fold taken from the right: x.method(y.method(z.method(w)))
fold_array_right(method, c, s) ==
    CASE Len(s) = 1 -> Ok(s[1])
      [] Len(s) = 2 -> method_call(method, c, Ok(s[2]), s[1])
      [] Len(s) = 3 -> method_call(method, c, method_call(method, c, Ok(s[3]), s[2]), s[1])
      [] Len(s) = 4 ->
             method_call(method, c,
                 method_call(method, c, method_call(method, c, Ok(s[4]), s[3]), s[2]),
                 s[1])

\* fold_array!(method, { x, y, z, w }): x.method(y).method(z).method(w), one
\* arm per arity
fold_array(method, c, s) ==
    CASE Len(s) = 1 -> Ok(s[1])
      [] Len(s) = 2 -> method_call(method, c, Ok(s[1]), s[2])
      [] Len(s) = 3 -> method_call(method, c, method_call(method, c, Ok(s[1]), s[2]), s[3])
      [] Len(s) = 4 ->
             method_call(method, c,
                 method_call(method, c, method_call(method, c, Ok(s[1]), s[2]), s[3]),
                 s[4])

\* Array::sum: fold_array!(add, { self.x, .. })
sum(c, self) == fold_array("add", c, into_array(self))

\* (mutation) every product is taken of the receiver with itself
mul_element_wise_self(c, self, rhs) ==
    NewOf(self.ty, [f \in Fields(Arity(self)) |-> smul(c, self[f], self[f])])

\* ElementWise::mul_element_wise: new(self.x * rhs.x, ..)
mul_element_wise(c, self, rhs) ==
    NewOf(self.ty, [f \in Fields(Arity(self)) |-> smul(c, self[f], rhs[f])])

\* DotProduct::dot: VectorN::mul_element_wise(self, other).sum()
dot(c, self, other) ==
    LET p == mul_element_wise(c, self, other) IN
    IF p.ok THEN sum(c, p.val) ELSE Panic

\* (mutation) negation returns its operand
neg_identity(c, self) == Ok(self)

\* Neg for VectorN<S>: new(-self.x, ..)
neg(c, self) ==
    NewOf(self.ty, [f \in Fields(Arity(self)) |-> sneg(c, self[f])])

Vector3 == TypeOf("Vector", 3)
Normal3 == TypeOf("Normal", 3)

\* (mutation) the left-handed product: the operands of every difference
\* exchanged
cross_left_handed(c, self, other) ==
    NewOf(Vector3, [x |-> MulSubMul(c, self.z, other.y, self.y, other.z),
                    y |-> MulSubMul(c, self.x, other.z, self.z, other.x),
                    z |-> MulSubMul(c, self.y, other.x, self.x, other.y)])

\* CrossProduct for Vector3<S>
cross(c, self, other) ==
    NewOf(Vector3, [x |-> MulSubMul(c, self.y, other.z, self.z, other.y),
                    y |-> MulSubMul(c, self.z, other.x, self.x, other.z),
                    z |-> MulSubMul(c, self.x, other.y, self.y, other.x)])

\* CrossProduct<Vector3<S>> for Normal3<S>, Output = Vector3<S>
Normal3_cross_Vector3(c, self, other) ==
    NewOf(Vector3, [x |-> MulSubMul(c, self.y, other.z, self.z, other.y),
                    y |-> MulSubMul(c, self.z, other.x, self.x, other.z),
                    z |-> MulSubMul(c, self.x, other.y, self.y, other.x)])

\* CrossProduct<Normal3<S>> for Vector3<S>, Output = Vector3<S>
Vector3_cross_Normal3(c, self, other) ==
    NewOf(Vector3, [x |-> MulSubMul(c, self.y, other.z, self.z, other.y),
                    y |-> MulSubMul(c, self.z, other.x, self.x, other.z),
                    z |-> MulSubMul(c, self.x, other.y, self.y, other.x)])

\* Normal3::cross(self, other: Normal3<S>) -> Normal3<S>
Normal3_cross(c, self, other) ==
    NewOf(Normal3, [x |-> MulSubMul(c, self.y, other.z, self.z, other.y),
                    y |-> MulSubMul(c, self.z, other.x, self.x, other.z),
                    z |-> MulSubMul(c, self.x, other.y, self.y, other.x)])

\* (mutation) the two products added
perp_dot_sum(c, self, other) ==
    LET l == smul(c, self.x, other.y)
        m == smul(c, self.y, other.x)
    IN  IF l.ok /\ m.ok THEN sadd(c, l.val, m.val) ELSE Panic

\* Vector2::perp_dot, Normal2::perp_dot
perp_dot(c, self, other) == MulSubMul(c, self.x, other.y, self.y, other.x)

\* a value of the other family with the components of v:
\* Normal3::from(<[S; 3]>::from(v)) and Vector3::from(<[S; 3]>::from(v))
InFamily(family, v) == from_array(TypeOf(family, Arity(v)), into_array(v))

\* let r = a.dot(b);
Dot(c) ==
    /\ Fresh
    /\ op' = "dot"
    /\ arg' = <<c>>
    /\ res' = dot(c, ValA, ValB)
    /\ UNCHANGED <<n, fam, mem, shadow>>

\* let r = a.cross(b);   a, b: Vector3
Cross(c) ==
    /\ Fresh /\ n = 3 /\ fam = "Vector"
    /\ op' = "cross"
    /\ arg' = <<c>>
    /\ res' = cross(c, ValA, ValB)
    /\ UNCHANGED <<n, fam, mem, shadow>>

\* let r = -b.cross(a);   a, b: Vector3
NegCross(c) ==
    LET r == cross(c, ValB, ValA) IN
    /\ Fresh /\ n = 3 /\ fam = "Vector"
    /\ op' = "neg_cross"
    /\ arg' = <<c>>
    /\ res' = IF r.ok THEN neg(c, r.val) ELSE Panic
    /\ UNCHANGED <<n, fam, mem, shadow>>

\* let r = a.cross(Vector3::from(b));   a: Normal3
CrossNormalVector(c) ==
    /\ Fresh /\ n = 3 /\ fam = "Normal"
    /\ op' = "cross_normal_vector"
    /\ arg' = <<c>>
    /\ res' = Normal3_cross_Vector3(c, ValA, InFamily("Vector", ValB))
    /\ UNCHANGED <<n, fam, mem, shadow>>

\* let r = a.cross(Normal3::from(b));   a: Vector3
CrossVectorNormal(c) ==
    /\ Fresh /\ n = 3 /\ fam = "Vector"
    /\ op' = "cross_vector_normal"
    /\ arg' = <<c>>
    /\ res' = Vector3_cross_Normal3(c, ValA, InFamily("Normal", ValB))
    /\ UNCHANGED <<n, fam, mem, shadow>>

\* let r = a.cross(b);   a, b: Normal3
CrossNormalNormal(c) ==
    /\ Fresh /\ n = 3 /\ fam = "Normal"
    /\ op' = "cross_normal_normal"
    /\ arg' = <<c>>
    /\ res' = Normal3_cross(c, ValA, ValB)
    /\ UNCHANGED <<n, fam, mem, shadow>>

\* let r = a.perp_dot(b);   a, b of arity 2
PerpDot(c) ==
    /\ Fresh /\ n = 2
    /\ op' = "perp_dot"
    /\ arg' = <<c>>
    /\ res' = perp_dot(c, ValA, ValB)
    /\ UNCHANGED <<n, fam, mem, shadow>>

\* the operands: those of InitArith and the unit vectors
InitProd ==
    /\ n \in 1..MaxArity
    /\ fam \in Families
    /\ \E va \in VectorInputs(TypeOf(fam, n)) \cup Units(TypeOf(fam, n)),
          vb \in VectorInputs(TypeOf(fam, n)) \cup Units(TypeOf(fam, n))
                    \cup {TestVectorB(TypeOf(fam, n))} :
           InitWith(va, vb)

NextProd ==
    \/ \E c \in BOOLEAN : Dot(c)
    \/ \E c \in BOOLEAN : Cross(c)
    \/ \E c \in BOOLEAN : NegCross(c)
    \/ \E c \in BOOLEAN : CrossNormalVector(c)
    \/ \E c \in BOOLEAN : CrossVectorNormal(c)
    \/ \E c \in BOOLEAN : CrossNormalNormal(c)
    \/ \E c \in BOOLEAN : PerpDot(c)

SpecProd == InitProd /\ [][NextProd]_vars

----------------------------------------------------------------------------
(* Scalar operators *)

Abs(x) == IF x < 0 THEN 0 - x ELSE x

\* (mutation) a zero divisor gives zero
sdiv_zero_guarded(x, y) ==
    IF y = 0
    THEN Ok(0)
    ELSE IF x = ScalarMin /\ y = -1
         THEN Panic
         ELSE LET q == Abs(x) \div Abs(y) IN
              Ok(IF (x < 0) = (y < 0) THEN q ELSE 0 - q)

\* S / S on a primitive integer: the quotient rounded toward zero; a zero
\* divisor and MIN / -1 panic, with or without overflow checks
sdiv(x, y) ==
    IF y = 0 \/ (x = ScalarMin /\ y = -1)
    THEN Panic
    ELSE LET q == Abs(x) \div Abs(y) IN
         Ok(IF (x < 0) = (y < 0) THEN q ELSE 0 - q)

\* S % S on a primitive integer: what the quotient rounded toward zero
\* leaves, with the sign of the dividend; it panics where S / S does
srem(x, y) ==
    LET q == sdiv(x, y) IN
    IF q.ok THEN Ok(x - (y * q.val)) ELSE Panic

\* Mul<VectorN<S>> for S: new(scalar * vector.x, ..)
scalar_mul(c, scalar, vector) ==
    NewOf(vector.ty, [f \in Fields(Arity(vector)) |-> smul(c, scalar, vector[f])])

\* (mutation) the vector's component divided by the scalar
scalar_div_exchanged(scalar, vector) ==
    NewOf(vector.ty, [f \in Fields(Arity(vector)) |-> sdiv(vector[f], scalar)])

\* Div<VectorN<S>> for S: new(scalar / vector.x, ..)
scalar_div(scalar, vector) ==
    NewOf(vector.ty, [f \in Fields(Arity(vector)) |-> sdiv(scalar, vector[f])])

\* Rem<VectorN<S>> for S: new(scalar % vector.x, ..)
scalar_rem(scalar, vector) ==
    NewOf(vector.ty, [f \in Fields(Arity(vector)) |-> srem(scalar, vector[f])])

\* Div<S> for VectorN<S>: new(vector.x / scalar, ..)
div(vector, scalar) ==
    NewOf(vector.ty, [f \in Fields(Arity(vector)) |-> sdiv(vector[f], scalar)])

\* Rem<S> for VectorN<S>: new(vector.x % scalar, ..)
rem(vector, scalar) ==
    NewOf(vector.ty, [f \in Fields(Arity(vector)) |-> srem(vector[f], scalar)])

\* scalars to divide by and to be divided: what ScalarInputs has, and -1
DivisionInputs == ScalarInputs \cup {-1}

\* let r = s * a;
ScalarMul(c, s) ==
    /\ Fresh
    /\ op' = "scalar_mul"
    /\ arg' = <<c, s>>
    /\ res' = scalar_mul(c, s, ValA)
    /\ UNCHANGED <<n, fam, mem, shadow>>

\* let r = a * s;
MulScalar(c, s) ==
    /\ Fresh
    /\ op' = "mul"
    /\ arg' = <<c, s>>
    /\ res' = mul(c, ValA, s)
    /\ UNCHANGED <<n, fam, mem, shadow>>

\* let r = s / a;
ScalarDiv(s) ==
    /\ Fresh
    /\ op' = "scalar_div"
    /\ arg' = <<s>>
    /\ res' = scalar_div(s, ValA)
    /\ UNCHANGED <<n, fam, mem, shadow>>

\* let r = s % a;
ScalarRem(s) ==
    /\ Fresh
    /\ op' = "scalar_rem"
    /\ arg' = <<s>>
    /\ res' = scalar_rem(s, ValA)
    /\ UNCHANGED <<n, fam, mem, shadow>>

\* let r = a / s;
DivScalar(s) ==
    /\ Fresh
    /\ op' = "div"
    /\ arg' = <<s>>
    /\ res' = div(ValA, s)
    /\ UNCHANGED <<n, fam, mem, shadow>>

\* let r = a % s;
RemScalar(s) ==
    /\ Fresh
    /\ op' = "rem"
    /\ arg' = <<s>>
    /\ res' = rem(ValA, s)
    /\ UNCHANGED <<n, fam, mem, shadow>>

NextScalar ==
    \/ \E c \in BOOLEAN, s \in ScalarInputs : ScalarMul(c, s)
    \/ \E c \in BOOLEAN, s \in ScalarInputs : MulScalar(c, s)
    \/ \E s \in DivisionInputs : ScalarDiv(s)
    \/ \E s \in DivisionInputs : ScalarRem(s)
    \/ \E s \in DivisionInputs : DivScalar(s)
    \/ \E s \in DivisionInputs : RemScalar(s)

SpecScalar == Init /\ [][NextScalar]_vars

----------------------------------------------------------------------------
(* Element-wise operators, compound assignment, operands by reference *)

\* x op y on the scalar type, the operator by name
scalar_op(o, c, x, y) ==
    CASE o = "add" -> sadd(c, x, y)
      [] o = "sub" -> ssub(c, x, y)
      [] o = "mul" -> smul(c, x, y)
      [] o = "div" -> sdiv(x, y)
      [] o = "rem" -> srem(x, y)

VectorOps == {"add", "sub"}
ScalarOps == {"mul", "div", "rem"}
ElementOps == {"add", "sub", "mul", "div", "rem"}

\* a + b, a - b
binary(o, c, lhs, rhs) ==
    CASE o = "add" -> add(c, lhs, rhs)
      [] o = "sub" -> sub(c, lhs, rhs)

\* a * s, a / s, a % s
binary_scalar(o, c, vector, scalar) ==
    CASE o = "mul" -> mul(c, vector, scalar)
      [] o = "div" -> div(vector, scalar)
      [] o = "rem" -> rem(vector, scalar)

\* ElementWise for VectorN<S>: add_element_wise .. rem_element_wise,
\* new(self.x op rhs.x, ..)
element_wise(o, c, self, rhs) ==
    NewOf(self.ty, [f \in Fields(Arity(self)) |-> scalar_op(o, c, self[f], rhs[f])])

\* ElementWise<S> for VectorN<S>: new(self.x op rhs, ..)
element_wise_scalar(o, c, self, rhs) ==
    NewOf(self.ty, [f \in Fields(Arity(self)) |-> scalar_op(o, c, self[f], rhs)])

\* $(self.$field op= rhs);+ from the k-th field on: one statement per field
\* in declared order, x op= y being x = x op y on the scalar type; rhs gives
\* the right operand of every statement.  The outcome is what *self holds in
\* the end and whether the statements returned: a panic leaves the fields
\* before it assigned.
RECURSIVE assign_fields(_, _, _, _, _)
assign_fields(o, c, self, rhs, k) ==
    IF k > Arity(self)
    THEN [ok |-> TRUE, self |-> self]
    ELSE LET f == FieldNames[k]
             r == scalar_op(o, c, self[f], rhs[f])
         IN  IF r.ok
             THEN assign_fields(o, c, [self EXCEPT ![f] = r.val], rhs, k + 1)
             ELSE [ok |-> FALSE, self |-> self]

\* a scalar right operand, the same for every field
Broadcast(self, scalar) == [f \in Fields(Arity(self)) |-> scalar]

\* (mutation) every statement takes the right operand's x
binary_assign_rhs_x(o, c, self, other) ==
    assign_fields(o, c, self, Broadcast(self, other.x), 1)

\* AddAssign, SubAssign: self.x += other.x; self.y += other.y; ..
binary_assign(o, c, self, other) == assign_fields(o, c, self, other, 1)

\* MulAssign<S>, DivAssign<S>, RemAssign<S>: self.x *= scalar; ..
binary_scalar_assign(o, c, self, scalar) ==
    assign_fields(o, c, self, Broadcast(self, scalar), 1)

\* ElementWise::add_assign_element_wise .. : self.x += rhs.x; ..
assign_element_wise(o, c, self, rhs) == assign_fields(o, c, self, rhs, 1)

\* ElementWise<S>::add_assign_element_wise .. : self.x += rhs; ..
assign_element_wise_scalar(o, c, self, rhs) ==
    assign_fields(o, c, self, Broadcast(self, rhs), 1)

\* an operand of a binary operator: by value it is moved out of its place,
\* by reference ($Op for &'a $Lhs, $Op<&'a $Rhs>) the body reads the fields
\* through the reference
Operand(byref, p) ==
    IF byref
    THEN Load(mem, TypeOf(fam, n), p)
    ELSE IF p = AddrA THEN ValA ELSE ValB

\* the state of a after a compound assignment to it
Assigned(r) ==
    /\ mem' = Store(mem, AddrA, r.self)
    /\ shadow' = [i \in 1..n |-> Comp(r.self, i - 1)]
    /\ res' = IF r.ok THEN Ok(<<>>) ELSE Panic

\* let r = a + b;  let r = &a + b;  let r = a + &b;  let r = &a + &b;
Binary(o, c, l, r) ==
    /\ Fresh
    /\ op' = "binary"
    /\ arg' = <<o, c, l, r>>
    /\ res' = binary(o, c, Operand(l, AddrA), Operand(r, AddrB))
    /\ UNCHANGED <<n, fam, mem, shadow>>

\* let r = a * s;  let r = &a * s;
BinaryScalar(o, c, s, l) ==
    /\ Fresh
    /\ op' = "binary_scalar"
    /\ arg' = <<o, c, s, l>>
    /\ res' = binary_scalar(o, c, Operand(l, AddrA), s)
    /\ UNCHANGED <<n, fam, mem, shadow>>

\* let r = a.add_element_wise(b);
ElementWise(o, c) ==
    /\ Fresh
    /\ op' = "element_wise"
    /\ arg' = <<o, c>>
    /\ res' = element_wise(o, c, ValA, ValB)
    /\ UNCHANGED <<n, fam, mem, shadow>>

\* let r = a.add_element_wise(s);
ElementWiseScalar(o, c, s) ==
    /\ Fresh
    /\ op' = "element_wise_scalar"
    /\ arg' = <<o, c, s>>
    /\ res' = element_wise_scalar(o, c, ValA, s)
    /\ UNCHANGED <<n, fam, mem, shadow>>

\* a += b;
BinaryAssign(o, c) ==
    /\ Fresh
    /\ op' = "binary_assign"
    /\ arg' = <<o, c>>
    /\ Assigned(binary_assign(o, c, ValA, ValB))
    /\ UNCHANGED <<n, fam>>

\* a *= s;
BinaryScalarAssign(o, c, s) ==
    /\ Fresh
    /\ op' = "binary_scalar_assign"
    /\ arg' = <<o, c, s>>
    /\ Assigned(binary_scalar_assign(o, c, ValA, s))
    /\ UNCHANGED <<n, fam>>

\* a.add_assign_element_wise(b);
AssignElementWise(o, c) ==
    /\ Fresh
    /\ op' = "assign_element_wise"
    /\ arg' = <<o, c>>
    /\ Assigned(assign_element_wise(o, c, ValA, ValB))
    /\ UNCHANGED <<n, fam>>

\* a.add_assign_element_wise(s);
AssignElementWiseScalar(o, c, s) ==
    /\ Fresh
    /\ op' = "assign_element_wise_scalar"
    /\ arg' = <<o, c, s>>
    /\ Assigned(assign_element_wise_scalar(o, c, ValA, s))
    /\ UNCHANGED <<n, fam>>

\* the operands: a of the inputs of Init, b the second test vector or zero
InitAssign ==
    /\ n \in 1..MaxArity
    /\ fam \in Families
    /\ \E va \in VectorInputs(TypeOf(fam, n)),
          vb \in {TestVectorB(TypeOf(fam, n)), from_value(TypeOf(fam, n), 0)} :
           InitWith(va, vb)

NextAssign ==
    \/ \E o \in VectorOps, c, l, r \in BOOLEAN : Binary(o, c, l, r)
    \/ \E o \in ScalarOps, c, l \in BOOLEAN, s \in DivisionInputs : BinaryScalar(o, c, s, l)
    \/ \E o \in ElementOps, c \in BOOLEAN : ElementWise(o, c)
    \/ \E o \in ElementOps, c \in BOOLEAN, s \in DivisionInputs : ElementWiseScalar(o, c, s)
    \/ \E o \in VectorOps, c \in BOOLEAN : BinaryAssign(o, c)
    \/ \E o \in ScalarOps, c \in BOOLEAN, s \in DivisionInputs : BinaryScalarAssign(o, c, s)
    \/ \E o \in ElementOps, c \in BOOLEAN : AssignElementWise(o, c)
    \/ \E o \in ElementOps, c \in BOOLEAN, s \in DivisionInputs : AssignElementWiseScalar(o, c, s)
    \/ \E s \in DivisionInputs : ScalarDiv(s)
    \/ \E s \in DivisionInputs : ScalarRem(s)

SpecAssign == InitAssign /\ [][NextAssign]_vars

----------------------------------------------------------------------------
(* Casts *)

Some(v) == [some |-> TRUE, val |-> v]
None == [some |-> FALSE]

\* Option::unwrap: the value of Some, a panic on None
unwrap(o) == IF o.some THEN Ok(o.val) ELSE Panic

\* the types cast is tried with: from i8 or f32 to an integer type
SourceTypes == {"i8", "f32"}
TargetTypes == {"u8", "i8", "i16"}

TypeMin(T) ==
    CASE T = "u8" -> 0
      [] T = "i8" -> -(2 ^ 7)
      [] T = "i16" -> -(2 ^ 15)

TypeMax(T) ==
    CASE T = "u8" -> (2 ^ 8) - 1
      [] T = "i8" -> (2 ^ 7) - 1
      [] T = "i16" -> (2 ^ 15) - 1

\* A component of a VectorN<f32> is kept as its number of halves: h stands
\* for h / 2, which is exact for the values tried.  The integer part of it,
\* rounded toward zero:
Trunc(h) == IF h < 0 THEN 0 - ((0 - h) \div 2) ELSE h \div 2

\* NumCast::from(x) to the integer type T: from an integer, x when T holds
\* it; from a float, the integer part of x when T holds it; otherwise None
NumCast_from(S, x, T) ==
    LET v == IF S = "f32" THEN Trunc(x) ELSE x IN
    IF TypeMin(T) <= v /\ v <= TypeMax(T) THEN Some(v) ELSE None

\* (mutation) a component T does not hold becomes 0
cast_partial(S, self, T) ==
    NewOf(self.ty, [f \in Fields(Arity(self)) |->
        LET o == NumCast_from(S, self[f], T) IN
        IF o.some THEN Ok(o.val) ELSE Ok(0)])

\* $VectorN::cast: $VectorN { x: NumCast::from(self.x).unwrap(), .. }
cast(S, self, T) ==
    NewOf(self.ty, [f \in Fields(Arity(self)) |->
        unwrap(NumCast_from(S, self[f], T))])

\* let r = a.cast::<T>();   for a: VectorN<i8>
Cast(T) ==
    /\ Fresh
    /\ op' = "cast"
    /\ arg' = <<"i8", T, ValA>>
    /\ res' = cast("i8", ValA, T)
    /\ UNCHANGED <<n, fam, mem, shadow>>

\* let h = VectorN::new(a.x as f32 / 2.0, ..); let r = h.cast::<T>();
\* the components of h in halves are the components of a
CastFloat(T) ==
    /\ Fresh
    /\ op' = "cast"
    /\ arg' = <<"f32", T, ValA>>
    /\ res' = cast("f32", ValA, T)
    /\ UNCHANGED <<n, fam, mem, shadow>>

NextCast ==
    \/ \E T \in TargetTypes : Cast(T)
    \/ \E T \in TargetTypes : CastFloat(T)

SpecCast == Init /\ [][NextCast]_vars

----------------------------------------------------------------------------
(* Reductions *)

\* Array::product: fold_array!(mul, { self.x, .. })
product(c, self) == fold_array("mul", c, into_array(self))

\* Array::min, Array::max: fold_array!(partial_min, ..), fold_array!(partial_max, ..)
min(self) == fold_array("partial_min", FALSE, into_array(self))
max(self) == fold_array("partial_max", FALSE, into_array(self))

\* Array::pluck_min, Array::pluck_max:
\* $VectorN { x: self.x.partial_min(other.x), .. }
pluck_min(self, other) ==
    new(self.ty, [f \in Fields(Arity(self)) |-> partial_min(self[f], other[f])])

pluck_max(self, other) ==
    new(self.ty, [f \in Fields(Arity(self)) |-> partial_max(self[f], other[f])])

\* let r = a.sum();
Sum(c) ==
    /\ Fresh
    /\ op' = "sum"
    /\ arg' = <<c>>
    /\ res' = sum(c, ValA)
    /\ UNCHANGED <<n, fam, mem, shadow>>

\* let r = a.product();
Product(c) ==
    /\ Fresh
    /\ op' = "product"
    /\ arg' = <<c>>
    /\ res' = product(c, ValA)
    /\ UNCHANGED <<n, fam, mem, shadow>>

\* let r = a.min();
Min ==
    /\ Fresh
    /\ op' = "min"
    /\ arg' = <<>>
    /\ res' = min(ValA)
    /\ UNCHANGED <<n, fam, mem, shadow>>

\* let r = a.max();
Max ==
    /\ Fresh
    /\ op' = "max"
    /\ arg' = <<>>
    /\ res' = max(ValA)
    /\ UNCHANGED <<n, fam, mem, shadow>>

\* let r = a.pluck_min(b);
PluckMin ==
    /\ Fresh
    /\ op' = "pluck_min"
    /\ arg' = <<>>
    /\ res' = Ok(pluck_min(ValA, ValB))
    /\ UNCHANGED <<n, fam, mem, shadow>>

\* let r = a.pluck_max(b);
PluckMax ==
    /\ Fresh
    /\ op' = "pluck_max"
    /\ arg' = <<>>
    /\ res' = Ok(pluck_max(ValA, ValB))
    /\ UNCHANGED <<n, fam, mem, shadow>>

NextReduce ==
    \/ \E c \in BOOLEAN : Sum(c)
    \/ \E c \in BOOLEAN : Product(c)
    \/ Min
    \/ Max
    \/ PluckMin
    \/ PluckMax

SpecReduce == InitAssign /\ [][NextReduce]_vars

----------------------------------------------------------------------------
(* Rays *)

\* Rays are over a float scalar.  The model draws small integers, on which
\* float addition and multiplication are exact, and keeps +infinity as one
\* value above every finite scalar.
Infinity == 2 ^ Bits

fadd(x, y) == x + y
fmul(x, y) == x * y

\* depth is a usize, modelled at 16 bits, the least width a usize has
UsizeBits == 16
UsizeMax == (2 ^ UsizeBits) - 1

\* usize + usize: an overflow panics with overflow checks (c) and wraps
\* without them
uadd(c, x, y) ==
    IF x + y <= UsizeMax
    THEN Ok(x + y)
    ELSE IF c THEN Panic ELSE Ok((x + y) % (2 ^ UsizeBits))

\* the dimensions rays exist in: Ray2 and Ray3
RayDims == {2, 3}

PointN(k) == TypeOf("Point", k)
VectorN(k) == TypeOf("Vector", k)

\* Ray2::new, Ray3::new
Ray_new(o, d, time) ==
    [o |-> o, d |-> d, min_t |-> 0, max_t |-> Infinity, depth |-> 0, time |-> time]

\* Ray2::segment, Ray3::segment
segment(o, d, min_t, max_t, time) ==
    [o |-> o, d |-> d, min_t |-> min_t, max_t |-> max_t, depth |-> 0, time |-> time]

\* (mutation) the child starts over at depth 1
child_depth_one(c, self, o, d) ==
    Ok([o |-> o, d |-> d, min_t |-> 0, max_t |-> Infinity,
        depth |-> 1, time |-> self.time])

\* Ray2::child, Ray3::child: depth is self.depth + 1
child(c, self, o, d) ==
    LET depth == uadd(c, self.depth, 1) IN
    IF depth.ok
    THEN Ok([o |-> o, d |-> d, min_t |-> 0, max_t |-> Infinity,
             depth |-> depth.val, time |-> self.time])
    ELSE Panic

\* Ray2::child_segment, Ray3::child_segment
child_segment(c, self, o, d, min_t, max_t) ==
    LET depth == uadd(c, self.depth, 1) IN
    IF depth.ok
    THEN Ok([o |-> o, d |-> d, min_t |-> min_t, max_t |-> max_t,
             depth |-> depth.val, time |-> self.time])
    ELSE Panic

\* Add<VectorN<S>> for PointN<S>: the point moved by the vector, field by field
Point_add(p, v) ==
    new(p.ty, [f \in Fields(Arity(p)) |-> fadd(p[f], v[f])])

\* Mul<S> for VectorN<S> over a float scalar: new(vector.x * scalar, ..)
mul_float(vector, scalar) ==
    new(vector.ty, [f \in Fields(Arity(vector)) |-> fmul(vector[f], scalar)])

\* (mutation) t is clamped to [min_t, max_t]
at_clamped(self, t) ==
    Point_add(self.o, mul_float(self.d,
        IF t < self.min_t THEN self.min_t ELSE IF t > self.max_t THEN self.max_t ELSE t))

\* Ray2::at, Ray3::at: self.o + self.d * t
at(self, t) == Point_add(self.o, mul_float(self.d, t))

\* A ray is a #[repr(C)] struct: o, d, min_t, max_t, depth and time, in this
\* order, one cell per scalar
RaySize(k) == (2 * k) + 4

LoadRay(m, p, k) ==
    [o     |-> Load(m, PointN(k), p),
     d     |-> Load(m, VectorN(k), p + k),
     min_t |-> m[p + (2 * k)],
     max_t |-> m[p + (2 * k) + 1],
     depth |-> m[p + (2 * k) + 2],
     time  |-> m[p + (2 * k) + 3]]

\* the cells of the ray r placed at p
RayCells(p, r) ==
    LET k == Arity(r.d) IN
    [a \in p..(p + RaySize(k) - 1) |->
        CASE a < p + k -> Comp(r.o, a - p)
          [] a >= p + k /\ a < p + (2 * k) -> Comp(r.d, a - (p + k))
          [] a = p + (2 * k) -> r.min_t
          [] a = p + (2 * k) + 1 -> r.max_t
          [] a = p + (2 * k) + 2 -> r.depth
          [] a = p + (2 * k) + 3 -> r.time]

\* ray j of the chain, the root being ray 0
RayAt(m, j) == LoadRay(m, j * RaySize(n), n)

\* the ray derived last
LastRay == Len(shadow) - 1

\* the longest chain of derived rays tried
MaxChain == 2

\* origins and directions: those of the unit tests, POINT2 = (0, 0) and
\* VECTOR2 = (1, 1), and a pair with no two components equal
RayArgs(k) ==
    {<<from_value(PointN(k), 0), from_value(VectorN(k), 1)>>,
     <<TestVector(PointN(k)), TestVectorB(VectorN(k))>>}

\* the bounds of a segment: those of the unit tests scaled down, and a
\* segment that does not hold t = 0
SegmentBounds == {<<1, 100>>, <<-2, -1>>}

TimeInputs == {0, 1}

\* the parameters a ray is evaluated at: before, at and behind the origin,
\* inside and outside of the segments
AtInputs == {-1, 0, 1, 2}

\* the root rays: built by new, built by segment, or written as a struct
\* literal with the largest depth there is
RootRays(k) ==
    {Ray_new(od[1], od[2], time) : od \in RayArgs(k), time \in TimeInputs}
    \cup {segment(od[1], od[2], b[1], b[2], time) :
        od \in RayArgs(k), b \in SegmentBounds, time \in TimeInputs}
    \cup {[Ray_new(from_value(PointN(k), 0), from_value(VectorN(k), 1), 0)
              EXCEPT !.depth = UsizeMax]}

InitRay ==
    /\ n \in RayDims
    /\ fam = "Vector"
    /\ \E r \in RootRays(n) :
           /\ mem = RayCells(0, r)
           /\ res = Ok(r)
    /\ shadow = <<0>>
    /\ op = "new"
    /\ arg = <<>>

\* the derived ray is a new value: it is placed behind the rays there are
Derived(r) ==
    /\ res' = r
    /\ mem' = IF r.ok THEN RayCells((LastRay + 1) * RaySize(n), r.val) @@ mem ELSE mem
    /\ shadow' = IF r.ok THEN Append(shadow, shadow[LastRay + 1] + 1) ELSE shadow

\* let r = last.child(o, d);
Child(c, o, d) ==
    /\ LastRay < MaxChain
    /\ op' = "child"
    /\ arg' = <<c, o, d>>
    /\ Derived(child(c, RayAt(mem, LastRay), o, d))
    /\ UNCHANGED <<n, fam>>

\* let r = last.child_segment(o, d, min_t, max_t);
ChildSegment(c, o, d, b) ==
    /\ LastRay < MaxChain
    /\ op' = "child_segment"
    /\ arg' = <<c, o, d, b[1], b[2]>>
    /\ Derived(child_segment(c, RayAt(mem, LastRay), o, d, b[1], b[2]))
    /\ UNCHANGED <<n, fam>>

\* let p = last.at(t);
At(t) ==
    /\ op' = "at"
    /\ arg' = <<t>>
    /\ res' = Ok(at(RayAt(mem, LastRay), t))
    /\ UNCHANGED <<n, fam, mem, shadow>>

NextRay ==
    \/ \E c \in BOOLEAN, od \in RayArgs(n) : Child(c, od[1], od[2])
    \/ \E c \in BOOLEAN, od \in RayArgs(n), b \in SegmentBounds :
           ChildSegment(c, od[1], od[2], b)
    \/ \E t \in AtInputs : At(t)

SpecRay == InitRay /\ [][NextRay]_vars

----------------------------------------------------------------------------
(* Transforms by a Matrix4 *)

Point3 == PointN(3)

\* t[i][j], i and j from 0: a Matrix4 is kept as the four sequences t[0]..t[3]
Entry(t, i, j) == t[i + 1][j + 1]

Identity4 ==
    << <<1, 0, 0, 0>>, <<0, 1, 0, 0>>, <<0, 0, 1, 0>>, <<0, 0, 0, 1>> >>

\* the matrices tried.  Affine ones (t[3] = (0, 0, 0, 1)): a move by
\* (1, 2, 3) and the move back, a shear with a move and its inverse, a turn
\* of the axes and the turn back, and a singular matrix.  Not affine: w = -1
\* and w = 2 for every point.
Move ==
    << <<1, 0, 0, 1>>, <<0, 1, 0, 2>>, <<0, 0, 1, 3>>, <<0, 0, 0, 1>> >>
MoveBack ==
    << <<1, 0, 0, -1>>, <<0, 1, 0, -2>>, <<0, 0, 1, -3>>, <<0, 0, 0, 1>> >>
ShearMove ==
    << <<1, 1, 0, 1>>, <<0, 1, 0, 2>>, <<0, 0, 1, 3>>, <<0, 0, 0, 1>> >>
ShearMoveBack ==
    << <<1, -1, 0, 1>>, <<0, 1, 0, -2>>, <<0, 0, 1, -3>>, <<0, 0, 0, 1>> >>
Turn ==
    << <<0, 1, 0, 0>>, <<0, 0, 1, 0>>, <<1, 0, 0, 0>>, <<0, 0, 0, 1>> >>
TurnBack ==
    << <<0, 0, 1, 0>>, <<1, 0, 0, 0>>, <<0, 1, 0, 0>>, <<0, 0, 0, 1>> >>
Flat ==
    << <<0, 0, 0, 0>>, <<0, 1, 0, 0>>, <<0, 0, 1, 0>>, <<0, 0, 0, 1>> >>
Flip ==
    << <<1, 0, 0, 0>>, <<0, 1, 0, 0>>, <<0, 0, 1, 0>>, <<0, 0, 0, -1>> >>
Twice ==
    << <<2, 0, 0, 0>>, <<0, 2, 0, 0>>, <<0, 0, 2, 0>>, <<0, 0, 0, 2>> >>

\* the matrices whose inverse has integer entries, each with its inverse
Invertible == {Identity4, Move, MoveBack, ShearMove, ShearMoveBack, Turn, TurnBack, Flip}

Matrices == Invertible \cup {Flat, Twice}

\* the product of two matrices, entry (i, j) the sum over k of a[i][k] * b[k][j]
MatMul(a, b) ==
    [i \in 1..4 |-> [j \in 1..4 |->
        (a[i][1] * b[1][j]) + (a[i][2] * b[2][j]) + (a[i][3] * b[3][j]) + (a[i][4] * b[4][j])]]

\* Matrix4::invert: the inverse when there is one, None for a singular
\* matrix.  The inverse is looked up among the matrices tried.
invert(t) ==
    IF \E m \in Invertible : MatMul(t, m) = Identity4
    THEN Some(CHOOSE m \in Invertible : MatMul(t, m) = Identity4)
    ELSE None

\* the finite floats the model works on, and the exact quotient of two of
\* them; the inputs are drawn so that every quotient taken is one of them
FloatRange == (-Infinity + 1)..(Infinity - 1)

fdiv(x, y) == CHOOSE q \in FloatRange : q * y = x

\* Div<S> for Point3<S>: every coordinate divided by the scalar
Point_div(p, scalar) ==
    new(p.ty, [f \in Fields(Arity(p)) |-> fdiv(p[f], scalar)])

\* t[i][0] * self.x + t[i][1] * self.y + t[i][2] * self.z
Row3(t, i, self) ==
    fadd(fadd(fmul(Entry(t, i, 0), self.x), fmul(Entry(t, i, 1), self.y)),
         fmul(Entry(t, i, 2), self.z))

\* Transform<Matrix4> for Point3: res[i] is row i of t applied to the point
\* plus t[i][3]; the result is divided by w when w is not one
Point3_transform(self, t) ==
    LET res_ == new(Point3, [f \in Fields(3) |->
                    fadd(Row3(t, FieldIndex(f), self), Entry(t, FieldIndex(f), 3))])
        w == fadd(Row3(t, 3, self), Entry(t, 3, 3))
    IN  IF w # 1 THEN Point_div(res_, w) ELSE res_

\* (mutation) the direction is moved like a point
Vector3_transform_moved(self, t) ==
    new(Vector3, [f \in Fields(3) |->
           fadd(Row3(t, FieldIndex(f), self), Entry(t, FieldIndex(f), 3))])

\* Transform<Matrix4> for Vector3: res[i] is row i of t applied to the vector
Vector3_transform(self, t) ==
    new(Vector3, [f \in Fields(3) |-> Row3(t, FieldIndex(f), self)])

\* (mutation) the inverse applied with the index pattern of Vector3
Normal3_transform_rows(self, t) ==
    LET inv == unwrap(invert(t)) IN
    IF inv.ok
    THEN Ok(new(Normal3, [f \in Fields(3) |-> Row3(inv.val, FieldIndex(f), self)]))
    ELSE Panic

\* Transform<Matrix4> for Normal3: t.invert().unwrap(), then
\* res[i] = inv[0][i] * self.x + inv[1][i] * self.y + inv[2][i] * self.z
Normal3_transform(self, t) ==
    LET inv == unwrap(invert(t)) IN
    IF inv.ok
    THEN Ok(new(Normal3, [f \in Fields(3) |->
               fadd(fadd(fmul(Entry(inv.val, 0, FieldIndex(f)), self.x),
                         fmul(Entry(inv.val, 1, FieldIndex(f)), self.y)),
                    fmul(Entry(inv.val, 2, FieldIndex(f)), self.z))]))
    ELSE Panic

\* (mutation) the transformed ray counts as one ray deeper
Ray3_transform_deeper(self, t) ==
    [self EXCEPT !.o = Point3_transform(self.o, t),
                 !.d = Vector3_transform(self.d, t),
                 !.depth = self.depth + 1]

\* Transform<Matrix4> for Ray3: a copy of self with o and d transformed
Ray3_transform(self, t) ==
    [self EXCEPT !.o = Point3_transform(self.o, t),
                 !.d = Vector3_transform(self.d, t)]

\* the ray the transforms are applied to, and its parts
TheRay == RayAt(mem, 0)

InitTrans ==
    /\ n = 3
    /\ fam = "Vector"
    /\ \E r \in RootRays(3) :
           /\ mem = RayCells(0, r)
           /\ res = Ok(r)
    /\ shadow = <<0>>
    /\ op = "new"
    /\ arg = <<>>

\* let p = r.o.transform(&t);
TransformPoint(t) ==
    /\ Fresh
    /\ op' = "transform_point"
    /\ arg' = <<t>>
    /\ res' = Ok(Point3_transform(TheRay.o, t))
    /\ UNCHANGED <<n, fam, mem, shadow>>

\* let v = r.d.transform(&t);
TransformVector(t) ==
    /\ Fresh
    /\ op' = "transform_vector"
    /\ arg' = <<t>>
    /\ res' = Ok(Vector3_transform(TheRay.d, t))
    /\ UNCHANGED <<n, fam, mem, shadow>>

\* let m = Normal3::new(r.d.x, r.d.y, r.d.z).transform(&t);
TransformNormal(t) ==
    /\ Fresh
    /\ op' = "transform_normal"
    /\ arg' = <<t>>
    /\ res' = Normal3_transform(InFamily("Normal", TheRay.d), t)
    /\ UNCHANGED <<n, fam, mem, shadow>>

\* let r2 = r.transform(&t); the result is a second ray, placed behind r
TransformRay(t) ==
    /\ Fresh
    /\ op' = "transform_ray"
    /\ arg' = <<t>>
    /\ res' = Ok(Ray3_transform(TheRay, t))
    /\ mem' = RayCells(RaySize(3), Ray3_transform(TheRay, t)) @@ mem
    /\ shadow' = Append(shadow, 0)
    /\ UNCHANGED <<n, fam>>

\* let p = r.transform(&t).at(s); let q = r.at(s).transform(&t);
TransformAt(t, s) ==
    /\ Fresh
    /\ op' = "transform_at"
    /\ arg' = <<t, s>>
    /\ res' = Ok([p |-> at(Ray3_transform(TheRay, t), s),
                  q |-> Point3_transform(at(TheRay, s), t)])
    /\ UNCHANGED <<n, fam, mem, shadow>>

NextTrans ==
    \/ \E t \in Matrices : TransformPoint(t)
    \/ \E t \in Matrices : TransformVector(t)
    \/ \E t \in Invertible \cup {Flat} : TransformNormal(t)
    \/ \E t \in Matrices : TransformRay(t)
    \/ \E t \in Matrices, s \in AtInputs : TransformAt(t, s)

SpecTrans == InitTrans /\ [][NextTrans]_vars

----------------------------------------------------------------------------
(* Properties: indexing *)

Ty == TypeOf(fam, n)

\* the components of a in declared order
FullSeq == [i \in 1..n |-> ValA[FieldNames[i]]]

\* C1: for every arity N in 1..4 of either family and every index i with
\* 0 <= i < N, reading a[i] returns the i-th declared field of a
\* (x = 0, y = 1, z = 2, w = 3).
C1_IndexReadsField ==
    (op = "index" /\ arg[1] < n) => res = Ok(ValA[FieldNames[arg[1] + 1]])

\* VECTOR4[3] == VECTOR4.w
C1_Witness ==
    /\ op = "index" /\ n = 4 /\ arg[1] = 3
    /\ ValA = TestVector(Ty) /\ res = Ok(ValA.w) /\ res = Ok(4)

\* C2: after any sequence of indexed writes a[i] = x with 0 <= i < N, reading
\* a[i] returns, for every i, the value last written to position i, or a's
\* initial component i when position i was never written; right after a write
\* of x at i, a[i] reads x.
C2_LastWriteWins ==
    /\ \A i \in 0..(n - 1) :
           LET r == index(AddrA, n, i) IN r.ok /\ mem[r.val] = shadow[i + 1]
    /\ (op = "index_mut" /\ arg[1] < n) =>
           LET r == index(AddrA, n, arg[1]) IN
           res.ok /\ r.ok /\ mem[r.val] = arg[2]

\* Normal2::new(1, 2) with index 0 set to 0 equals Normal2::from([0, 2])
C2_Witness ==
    /\ op = "index_mut" /\ fam = "Normal" /\ n = 2 /\ arg = <<0, 0>>
    /\ ValA = from_array(Ty, <<0, 2>>)

\* C3: indexing a (read or write) at a position i >= N is a fatal error: the
\* operation panics, returns no component, and leaves the memory as it was.
C3_OutOfBoundsFatal ==
    [][(op' \in {"index", "index_mut"} /\ arg'[1] >= n) =>
           (res' = Panic /\ mem' = mem)]_vars

\* a write at position N itself panicked
C3_Witness ==
    op = "index_mut" /\ arg[1] = n /\ res = Panic

\* C4: for every split point k with 0 <= k <= N, a[..k] has length k and
\* holds the first k components, a[k..] has length N - k and holds the rest,
\* the two together are the full component sequence; a[..0] and a[N..] are
\* empty, a[..N] and a[..] are the full component sequence in declared order.
C4_RangeSplit ==
    /\ (op = "index_range_to" /\ arg[1] <= n) =>
           LET k == arg[1]
               rest == index_range_from(AddrA, n, k)
           IN  /\ res.ok /\ rest.ok
               /\ Len(res.val) = k
               /\ res.val = SubSeq(FullSeq, 1, k)
               /\ res.val \o SliceAt(mem, rest.val) = FullSeq
               /\ (k = 0 => res.val = <<>>)
               /\ (k = n => res.val = FullSeq)
    /\ (op = "index_range_from" /\ arg[1] <= n) =>
           LET k == arg[1]
               front == index_range_to(AddrA, n, k)
           IN  /\ res.ok /\ front.ok
               /\ Len(res.val) = n - k
               /\ res.val = SubSeq(FullSeq, k + 1, n)
               /\ SliceAt(mem, front.val) \o res.val = FullSeq
               /\ (k = n => res.val = <<>>)
    /\ op = "index_range_full" => res = Ok(FullSeq)

\* &VECTOR4[1..] == &[2, 3, 4]
C4_Witness ==
    op = "index_range_from" /\ n = 4 /\ arg[1] = 1 /\ res = Ok(<<2, 3, 4>>)

----------------------------------------------------------------------------
(* Properties: conversions *)

\* C5: the conversions by value round-trip for every arity: an array (a
\* tuple) converted with From and back with Into is the original array
\* (tuple), a value converted with Into and back with From is the original
\* value, and element i of the array / tuple is declared field i.
C5_ByValueRoundTrip ==
    /\ op = "from_array" =>
           /\ into_array(res.val) = arg[1]
           /\ \A i \in 0..(n - 1) : Comp(res.val, i) = arg[1][i + 1]
    /\ op = "from_tuple" =>
           /\ into_tuple(res.val) = arg[1]
           /\ \A i \in 0..(n - 1) : Comp(res.val, i) = arg[1][TupleNames[i + 1]]
    /\ op = "into_array" =>
           /\ from_array(Ty, res.val) = arg[1]
           /\ \A i \in 0..(n - 1) : res.val[i + 1] = Comp(arg[1], i)
    /\ op = "into_tuple" =>
           /\ from_tuple(Ty, res.val) = arg[1]
           /\ \A i \in 0..(n - 1) : res.val[TupleNames[i + 1]] = Comp(arg[1], i)

\* let v: [i32; 4] = VECTOR4.into(); v == [1, 2, 3, 4]
C5_Witness ==
    /\ op = "into_array" /\ n = 4 /\ arg[1] = TestVector(Ty)
    /\ res = Ok(<<1, 2, 3, 4>>)

\* C6: the conversions by reference see the components the conversions by
\* value see: element i of the array view and of the tuple view of a is
\* declared field i of a, and a reference to an array or a tuple converted
\* with From into a reference to a vector / normal refers to a value equal to
\* the one built by value from the same components.
C6_ByReferenceAgrees ==
    /\ op = "as_ref_array" =>
           /\ res.val = into_array(arg[1])
           /\ \A i \in 0..(n - 1) : res.val[i + 1] = Comp(arg[1], i)
    /\ op = "as_ref_tuple" =>
           /\ res.val = into_tuple(arg[1])
           /\ \A i \in 0..(n - 1) : res.val[TupleNames[i + 1]] = Comp(arg[1], i)
    /\ op = "from_ref_array" => res.val = from_array(Ty, arg[1])
    /\ op = "from_ref_tuple" => res.val = from_tuple(Ty, arg[1])

\* let v = &(1, 2, 3); let v: &Vector3<_> = From::from(v); v == &VECTOR3
C6_Witness ==
    /\ op = "from_ref_tuple" /\ n = 3
    /\ arg[1] = into_tuple(TestVector(Ty)) /\ res = Ok(TestVector(Ty))

\* C7: a write of x to element i of the mutable array or tuple view of a is
\* a write to a: afterwards declared field i of a and a[i] are x, every other
\* component of a is what it was, and the other value b is what it was.
C7_ViewWriteIsLocal ==
    [][(op' \in {"as_mut_array", "as_mut_tuple"} /\ res'.ok) =>
           LET i == arg'[1]
               x == arg'[2]
               r == index(AddrA, n, i)
               before == Load(mem, Ty, AddrA)
               after == Load(mem', Ty, AddrA)
           IN  /\ Comp(after, i) = x
               /\ r.ok /\ mem'[r.val] = x
               /\ \A j \in (0..(n - 1)) \ {i} : Comp(after, j) = Comp(before, j)
               /\ Load(mem', Ty, AddrB) = Load(mem, Ty, AddrB)]_vars

\* VECTOR3 with .1 of its tuple view set to 0 is (1, 0, 3), b is untouched
C7_Witness ==
    /\ op = "as_mut_tuple" /\ n = 3 /\ arg = <<1, 0>>
    /\ ValA = from_array(Ty, <<1, 0, 3>>) /\ ValB = TestVector(Ty)

----------------------------------------------------------------------------
(* Properties: arithmetic *)

\* C8: a + b and a - b are component-wise: when the operator returns, every
\* component i of the result is a[i] + b[i] (a[i] - b[i]) in the scalar type,
\* and it panics only if one of these scalar operations does; in particular
\* vec2(1, 2) + vec2(3, 4) == vec2(4, 6).
C8_AddSubComponentWise ==
    /\ op = "add" =>
           IF res.ok
           THEN \A i \in 0..(n - 1) :
                    sadd(arg[1], Comp(ValA, i), Comp(ValB, i)) = Ok(Comp(res.val, i))
           ELSE \E i \in 0..(n - 1) : ~sadd(arg[1], Comp(ValA, i), Comp(ValB, i)).ok
    /\ op = "sub" =>
           IF res.ok
           THEN \A i \in 0..(n - 1) :
                    ssub(arg[1], Comp(ValA, i), Comp(ValB, i)) = Ok(Comp(res.val, i))
           ELSE \E i \in 0..(n - 1) : ~ssub(arg[1], Comp(ValA, i), Comp(ValB, i)).ok
    /\ (op = "add" /\ n = 2 /\ ValA = from_array(Ty, <<1, 2>>)
                   /\ ValB = from_array(Ty, <<3, 4>>)) =>
           res = Ok(from_array(Ty, <<4, 6>>))

\* vec2(1, 2) - vec2(3, 4) == vec2(-2, -2)
C8_Witness ==
    /\ op = "sub" /\ n = 2 /\ fam = "Vector"
    /\ ValA = from_array(Ty, <<1, 2>>) /\ ValB = from_array(Ty, <<3, 4>>)
    /\ res = Ok(from_array(Ty, <<-2, -2>>))

\* a * s + b * s, as the expression evaluates it
MulThenAdd(c, s) ==
    LET as == mul(c, ValA, s)
        bs == mul(c, ValB, s)
    IN  IF as.ok /\ bs.ok THEN add(c, as.val, bs.val) ELSE Panic

C10_AddCommutes ==
    op = "add" => res = add(arg[1], ValB, ValA)

\* VECTOR4 + (5, 6, 7, 8) == (5, 6, 7, 8) + VECTOR4 == (6, 8, 10, 12)
C10_Witness ==
    /\ op = "add" /\ n = 4 /\ ValA = TestVector(Ty) /\ ValB = TestVectorB(Ty)
    /\ res = Ok(from_array(Ty, <<6, 8, 10, 12>>))

----------------------------------------------------------------------------
(* Properties: products *)

\* a[0] * b[0] + .. + a[k-1] * b[k-1], the products added in declared order
RECURSIVE SumOfProducts(_, _, _, _)
SumOfProducts(c, a, b, k) ==
    LET p == smul(c, Comp(a, k - 1), Comp(b, k - 1)) IN
    IF k = 1
    THEN p
    ELSE LET acc == SumOfProducts(c, a, b, k - 1) IN
         IF acc.ok /\ p.ok THEN sadd(c, acc.val, p.val) ELSE Panic

\* C11: for every arity 1..4, dot(a, b) is the sum of the component-wise
\* products a[i] * b[i] taken in declared order, and it is symmetric:
\* dot(a, b) == dot(b, a) for all a, b.
C11_DotSumOfProducts ==
    op = "dot" =>
        /\ res = SumOfProducts(arg[1], ValA, ValB, n)
        /\ res = dot(arg[1], ValB, ValA)

\* VECTOR4.dot((5, 6, 7, 8)) == 5 + 12 + 21 + 32
C11_Witness ==
    /\ op = "dot" /\ n = 4 /\ ValA = TestVector(Ty) /\ ValB = TestVectorB(Ty)
    /\ res = Ok(70)

RightHanded(a, b) ==
    <<(a.y * b.z) - (a.z * b.y), (a.z * b.x) - (a.x * b.z), (a.x * b.y) - (a.y * b.x)>>

\* C13: the cross product is right-handed: when it returns, cross(a, b) is
\* (a.y*b.z - a.z*b.y, a.z*b.x - a.x*b.z, a.x*b.y - a.y*b.x) in the scalar
\* type, so that unit_x x unit_y == unit_z, unit_y x unit_z == unit_x and
\* unit_z x unit_x == unit_y; Normal3 x Vector3 and Vector3 x Normal3 return
\* what Vector3 x Vector3 returns on the same components.
C13_CrossRightHanded ==
    /\ op = "cross" =>
           /\ ~arg[1] => res.ok
           /\ res.ok =>
                  into_array(res.val) = [i \in 1..3 |-> Wrap(RightHanded(ValA, ValB)[i])]
           /\ (ValA = unit_x(Ty) /\ ValB = unit_y(Ty)) => res = Ok(unit_z(Ty))
           /\ (ValA = unit_y(Ty) /\ ValB = unit_z(Ty)) => res = Ok(unit_x(Ty))
           /\ (ValA = unit_z(Ty) /\ ValB = unit_x(Ty)) => res = Ok(unit_y(Ty))
    /\ op = "cross_normal_vector" =>
           res = cross(arg[1], InFamily("Vector", ValA), InFamily("Vector", ValB))
    /\ op = "cross_vector_normal" =>
           res = cross(arg[1], ValA, ValB)

\* vec3(1, 0, 0).cross(vec3(0, 1, 0)) == vec3(0, 0, 1)
C13_Witness ==
    /\ op = "cross" /\ ValA = from_array(Vector3, <<1, 0, 0>>)
    /\ ValB = from_array(Vector3, <<0, 1, 0>>)
    /\ res = Ok(from_array(Vector3, <<0, 0, 1>>))

\* C14: a cross product never produces a normal: every cross operation whose
\* receiver or argument is a Normal3 (normal x vector, vector x normal and
\* normal x normal) returns a Vector3, never a Normal3.
C14_CrossNeverNormal ==
    (op \in {"cross_normal_vector", "cross_vector_normal", "cross_normal_normal"}
        /\ res.ok) => res.val.ty = Vector3

----------------------------------------------------------------------------
(* Properties: constructors and changes of arity *)

\* C16: extend(s) appends s as the new last component and keeps the others
\* in order, truncate() drops the last component and keeps the others in
\* order: for v of arity 2 or 3, v.extend(s).truncate() == v, and for w of
\* arity 3 or 4, w.truncate().extend(last component of w) == w.
C16_ExtendTruncate ==
    /\ op = "extend" =>
           /\ res.ok /\ res.val.ty = TypeOf(fam, n + 1)
           /\ \A i \in 0..(n - 1) : Comp(res.val, i) = Comp(ValA, i)
           /\ Comp(res.val, n) = arg[1]
           /\ truncate(res.val) = ValA
    /\ op = "truncate" =>
           /\ res.ok /\ res.val.ty = TypeOf(fam, n - 1)
           /\ \A i \in 0..(n - 2) : Comp(res.val, i) = Comp(ValA, i)
           /\ extend(res.val, Comp(ValA, n - 1)) = ValA

\* VECTOR3.extend(2) == (1, 2, 3, 2), and truncated it is VECTOR3 again
C16_Witness ==
    /\ op = "extend" /\ n = 3 /\ ValA = TestVector(Ty) /\ arg = <<2>>
    /\ res = Ok(from_array(TypeOf(fam, 4), <<1, 2, 3, 2>>))
    /\ truncate(res.val) = TestVector(Ty)

\* C17: truncate_n(index) of a 4-component value drops exactly the component
\* at position index and keeps the others in declared order, so that
\* truncate_n(3) == truncate(); for an index outside 0..3, every negative
\* index included, it panics and returns no value.
C17_TruncateN ==
    op = "truncate_n" =>
        LET i == arg[1] IN
        IF 0 <= i /\ i < n
        THEN /\ res.ok /\ res.val.ty = TypeOf(fam, n - 1)
             /\ into_array(res.val) =
                    [j \in 1..(n - 1) |-> IF j <= i THEN FullSeq[j] ELSE FullSeq[j + 1]]
             /\ (i = n - 1) => res.val = truncate(ValA)
        ELSE res = Panic

\* VECTOR4.truncate_n(-1) panics
C17_Witness ==
    /\ op = "truncate_n" /\ ValA = TestVector(Ty) /\ arg[1] < 0 /\ res = Panic

C19_FromValueAndConstructor ==
    /\ op = "from_value" =>
           /\ res.ok /\ res.val.ty = Ty
           /\ \A i \in 0..(n - 1) : Comp(res.val, i) = arg[1]
           /\ res.val = new_positional(Ty, [i \in 1..n |-> arg[1]])
    /\ op = "constructor" =>
           /\ res.ok /\ res.val.ty = Ty
           /\ \A i \in 0..(n - 1) : Comp(res.val, i) = arg[1][i + 1]
           /\ res.val = ValA

\* Normal3::from_value(22) == Normal3::new(22, 22, 22)
C19_Witness ==
    /\ op = "from_value" /\ fam = "Normal" /\ n = 3 /\ arg = <<22>>
    /\ res = Ok(from_array(Ty, <<22, 22, 22>>))

----------------------------------------------------------------------------
(* Properties: scalar operators *)

\* r is what the scalar operation F gives for every position: the value of
\* its components, or a panic when F panics for one of them
PerComponent(r, F(_)) ==
    IF r.ok
    THEN r.val.ty = Ty /\ \A i \in 0..(n - 1) : F(i) = Ok(Comp(r.val, i))
    ELSE \E i \in 0..(n - 1) : ~F(i).ok

\* C20: the scalar operators take the scalar on either side: for an integer
\* scalar type s * v == v * s with (s * v)[i] == s * v[i], and the operand
\* order is kept per component: (s / v)[i] == s / v[i], (s % v)[i] == s % v[i],
\* (v / s)[i] == v[i] / s and (v % s)[i] == v[i] % s; an operator panics
\* exactly when the scalar operation panics for some component.
C20_ScalarOnEitherSide ==
    /\ op = "scalar_mul" =>
           /\ res = mul(arg[1], ValA, arg[2])
           /\ PerComponent(res, LAMBDA i : smul(arg[1], arg[2], Comp(ValA, i)))
    /\ op = "mul" => res = scalar_mul(arg[1], arg[2], ValA)
    /\ op = "scalar_div" =>
           PerComponent(res, LAMBDA i : sdiv(arg[1], Comp(ValA, i)))
    /\ op = "scalar_rem" =>
           PerComponent(res, LAMBDA i : srem(arg[1], Comp(ValA, i)))
    /\ op = "div" =>
           PerComponent(res, LAMBDA i : sdiv(Comp(ValA, i), arg[1]))
    /\ op = "rem" =>
           PerComponent(res, LAMBDA i : srem(Comp(ValA, i), arg[1]))

\* -128 / VECTOR4 == (-128, -64, -42, -32)
C20_Witness ==
    /\ op = "scalar_div" /\ n = 4 /\ arg = <<ScalarMin>> /\ ValA = TestVector(Ty)
    /\ res = Ok(from_array(Ty, <<-128, -64, -42, -32>>))

----------------------------------------------------------------------------
(* Properties: division by zero, compound assignment *)

\* C21: the library adds no zero guard to division or remainder: v / 0,
\* v % 0, v /= 0, v %= 0, and s / v or s % v with a zero component of v, all
\* panic as the scalar type's division does, and none of them returns a
\* vector.
C21_NoZeroGuard ==
    /\ (op \in {"binary_scalar", "binary_scalar_assign"}
            /\ arg[1] \in {"div", "rem"} /\ arg[3] = 0) => res = Panic
    /\ (op \in {"scalar_div", "scalar_rem"}
            /\ \E i \in 0..(n - 1) : Comp(ValA, i) = 0) => res = Panic

\* VECTOR4 /= 0 panics, and VECTOR4 is as it was
C21_Witness ==
    /\ op = "binary_scalar_assign" /\ arg[1] = "div" /\ arg[3] = 0
    /\ n = 4 /\ ValA = TestVector(Ty) /\ res = Panic

\* a compound assignment did what the binary operator r does: it returned
\* exactly if r did, and then a holds the value of r
AssignedAs(outcome, after, r) == (outcome.ok <=> r.ok) /\ (r.ok => after = r.val)

\* C28: each compound assignment is equivalent to its binary operator: after
\* a += b the value of a is (old a) + b, likewise -=, *= s, /= s, %= s and
\* every *_assign_element_wise with its *_element_wise, and the assignment
\* panics exactly when the operator does; the right operand is unchanged, and
\* the by-reference forms of a binary operator return what the by-value form
\* returns and change nothing.
C28_AssignIsBinary ==
    [][LET o == arg'[1]
           c == arg'[2]
       IN  /\ op' = "binary_assign" =>
                  /\ AssignedAs(res', ValA', binary(o, c, ValA, ValB))
                  /\ ValB' = ValB
           /\ op' = "binary_scalar_assign" =>
                  /\ AssignedAs(res', ValA', binary_scalar(o, c, ValA, arg'[3]))
                  /\ ValB' = ValB
           /\ op' = "assign_element_wise" =>
                  /\ AssignedAs(res', ValA', element_wise(o, c, ValA, ValB))
                  /\ ValB' = ValB
           /\ op' = "assign_element_wise_scalar" =>
                  /\ AssignedAs(res', ValA', element_wise_scalar(o, c, ValA, arg'[3]))
                  /\ ValB' = ValB
           /\ op' = "binary" =>
                  /\ res' = binary(o, c, ValA, ValB)
                  /\ mem' = mem
           /\ op' = "binary_scalar" =>
                  /\ res' = binary_scalar(o, c, ValA, arg'[3])
                  /\ mem' = mem]_vars

\* after VECTOR2 += (3, 4), VECTOR2 is (4, 6) and the right operand (3, 4)
C28_Witness ==
    /\ op = "binary_assign" /\ arg[1] = "add" /\ n = 2 /\ res = Ok(<<>>)
    /\ ValA = from_array(Ty, <<4, 6>>) /\ ValB = TestVectorB(Ty)

----------------------------------------------------------------------------
(* Properties: casts *)

\* the conversion of the source component x to T: an integer is kept, a
\* float loses its fraction
Converted(S, x) == IF S = "f32" THEN Trunc(x) ELSE x

\* C22: cast converts component by component: when the conversion of every
\* component of v is representable in the target type T, v.cast::<T>()[i] is
\* the conversion of v[i] for every i; when that of at least one component is
\* not (a negative or too large integer cast to a narrower unsigned type),
\* the whole cast panics and no partially converted vector is returned.
C22_CastAllOrNothing ==
    op = "cast" =>
        LET S == arg[1]
            T == arg[2]
            v == arg[3]
            Fits(i) == /\ TypeMin(T) <= Converted(S, Comp(v, i))
                       /\ Converted(S, Comp(v, i)) <= TypeMax(T)
        IN  IF \A i \in 0..(n - 1) : Fits(i)
            THEN /\ res.ok /\ res.val.ty = v.ty
                 /\ \A i \in 0..(n - 1) : Comp(res.val, i) = Converted(S, Comp(v, i))
            ELSE res = Panic

\* Vector2::new(0i8, -128).cast::<u8>() panics although x is representable
C22_Witness ==
    /\ op = "cast" /\ arg[1] = "i8" /\ arg[2] = "u8" /\ n = 2
    /\ ValA = from_array(Ty, <<0, -128>>) /\ res = Panic

\* the source component x and the component y of the result are one number
SameNumber(S, x, y) == IF S = "f32" THEN x = 2 * y ELSE x = y

\* C23: a cast that is not representable is signalled through a
\* failure-indicating result value rather than by truncating silently: cast
\* returns to its caller, and what it returns is either the failure value or
\* a vector every component of which has the numeric value of the source
\* component.
C23_CastFailureIsAValue ==
    op = "cast" =>
        /\ res.ok
        /\ \/ res.val = None
           \/ \A i \in 0..(n - 1) :
                  SameNumber(arg[1], Comp(arg[3], i), Comp(res.val, i))

----------------------------------------------------------------------------
(* Properties: reductions *)

\* ((a[0] op a[1]) op a[2]) op .. op a[k-1] on the scalar type
RECURSIVE FoldLeft(_, _, _, _)
FoldLeft(o, c, a, k) ==
    IF k = 1
    THEN Ok(Comp(a, 0))
    ELSE LET acc == FoldLeft(o, c, a, k - 1) IN
         IF acc.ok THEN scalar_op(o, c, acc.val, Comp(a, k - 1)) ELSE Panic

\* C24: the reductions fold the components left to right in declared order:
\* sum is ((x + y) + z) + w and product is ((x * y) * z) * w; over an integer
\* scalar min(v) is a component of v that is <= every component and max(v)
\* one that is >= every component; pluck_min(a, b)[i] is the smaller and
\* pluck_max(a, b)[i] the larger of a[i] and b[i] for every i.
C24_Reductions ==
    /\ op = "sum" => res = FoldLeft("add", arg[1], ValA, n)
    /\ op = "product" => res = FoldLeft("mul", arg[1], ValA, n)
    /\ op = "min" =>
           /\ res.ok
           /\ \E i \in 0..(n - 1) : Comp(ValA, i) = res.val
           /\ \A i \in 0..(n - 1) : res.val <= Comp(ValA, i)
    /\ op = "max" =>
           /\ res.ok
           /\ \E i \in 0..(n - 1) : Comp(ValA, i) = res.val
           /\ \A i \in 0..(n - 1) : res.val >= Comp(ValA, i)
    /\ op = "pluck_min" =>
           /\ res.ok /\ res.val.ty = Ty
           /\ \A i \in 0..(n - 1) :
                  Comp(res.val, i) =
                      IF Comp(ValA, i) <= Comp(ValB, i) THEN Comp(ValA, i) ELSE Comp(ValB, i)
    /\ op = "pluck_max" =>
           /\ res.ok /\ res.val.ty = Ty
           /\ \A i \in 0..(n - 1) :
                  Comp(res.val, i) =
                      IF Comp(ValA, i) >= Comp(ValB, i) THEN Comp(ValA, i) ELSE Comp(ValB, i)

\* with overflow checks (-128 + 127) + 127 is 126, where -128 + (127 + 127)
\* would panic
C24_Witness ==
    /\ op = "sum" /\ arg = <<TRUE>> /\ n = 3
    /\ ValA = from_array(Ty, <<-128, 127, 127>>) /\ res = Ok(126)

----------------------------------------------------------------------------
(* Properties: rays *)

\* the rays of the chain, the root being ray 0
Chain == 0..LastRay

\* the constructors of root rays give depth 0, and new the range [0, +infinity)
RootsAtDepthZero ==
    \A k \in RayDims : \A od \in RayArgs(k), time \in TimeInputs :
        /\ LET r == Ray_new(od[1], od[2], time) IN
               /\ r.depth = 0
               /\ r.min_t = 0
               /\ r.max_t = Infinity
               /\ r.o = od[1] /\ r.d = od[2] /\ r.time = time
        /\ \A b \in SegmentBounds :
               LET r == segment(od[1], od[2], b[1], b[2], time) IN
                   /\ r.depth = 0
                   /\ r.min_t = b[1]
                   /\ r.max_t = b[2]
                   /\ r.o = od[1] /\ r.d = od[2] /\ r.time = time

\* the ray derived last is what the call says of its parent and its arguments
DerivedFromParent ==
    (op \in {"child", "child_segment"} /\ res.ok) =>
        LET parent == RayAt(mem, LastRay - 1)
            r == RayAt(mem, LastRay)
        IN  /\ r = res.val
            /\ r.depth = (parent.depth + 1) % (2 ^ UsizeBits)
            /\ r.time = parent.time
            /\ r.o = arg[2]
            /\ r.d = arg[3]
            /\ op = "child" => (r.min_t = 0 /\ r.max_t = Infinity)
            /\ op = "child_segment" => (r.min_t = arg[4] /\ r.max_t = arg[5])

\* after k derivations from a root of depth 0 the depth is k, and the time is
\* the root's
DepthCountsCalls ==
    \A j \in Chain :
        /\ shadow[j + 1] = j
        /\ RayAt(mem, j).time = RayAt(mem, 0).time
        /\ RayAt(mem, 0).depth = 0 => RayAt(mem, j).depth = shadow[j + 1]

\* a derivation leaves every ray there is as it was
ParentsUnchanged ==
    \A j \in Chain : RayAt(mem', j) = RayAt(mem, j)

\* C25: new and segment give a ray of depth 0 (new with min_t = 0 and
\* max_t = +infinity); child and child_segment give a ray of the parent's
\* depth + 1 and the parent's time whose origin, direction and range are the
\* arguments (child: 0 and +infinity); after a chain of k such calls from a
\* root ray the depth is k and the time the root's; no call changes the
\* parent.
C25_RayDepth ==
    /\ [](RootsAtDepthZero /\ DerivedFromParent /\ DepthCountsCalls)
    /\ [][ParentsUnchanged]_vars

\* test_child twice: a child of a child of a ray built by new has depth 2
C25_Witness ==
    /\ op = "child"
    /\ res.ok
    /\ LastRay = 2
    /\ RayAt(mem, 0).depth = 0
    /\ RayAt(mem, 1).depth = 1
    /\ res.val.depth = 2
    /\ res.val.time = 1
    /\ res.val.o # RayAt(mem, 1).o

\* C26: r.at(t) is r.o + r.d * t, component by component, for every t, inside
\* the range [min_t, max_t] or not; at(0) is the origin and at(1) the origin
\* moved by the direction; the ray of the unit test, origin (0, 0) and
\* direction (1, 1), is at (1, 1) for t = 1.
C26_RayAt ==
    op = "at" =>
        LET r == RayAt(mem, LastRay)
            t == arg[1]
        IN  /\ res.ok
            /\ res.val.ty = PointN(n)
            /\ \A i \in 0..(n - 1) :
                   Comp(res.val, i) = Comp(r.o, i) + (Comp(r.d, i) * t)
            /\ t = 0 => res.val = r.o
            /\ t = 1 => \A i \in 0..(n - 1) :
                            Comp(res.val, i) = Comp(r.o, i) + Comp(r.d, i)
            /\ (n = 2 /\ t = 1 /\ r.o = from_value(PointN(2), 0)
                    /\ r.d = from_value(VectorN(2), 1))
                   => res.val = new(PointN(2), [x |-> 1, y |-> 1])

\* test_at, on a ray whose range does not hold the parameter
C26_Witness ==
    /\ op = "at"
    /\ arg = <<1>>
    /\ n = 2
    /\ RayAt(mem, LastRay).o = from_value(PointN(2), 0)
    /\ RayAt(mem, LastRay).d = from_value(VectorN(2), 1)
    /\ RayAt(mem, LastRay).min_t = -2
    /\ RayAt(mem, LastRay).max_t = -1
    /\ res = Ok(new(PointN(2), [x |-> 1, y |-> 1]))

----------------------------------------------------------------------------
(* Properties: transforms *)

Transpose(m) == [i \in 1..4 |-> [j \in 1..4 |-> m[j][i]]]

\* m is the inverse of t
InverseOf(m, t) == MatMul(t, m) = Identity4 /\ MatMul(m, t) = Identity4

\* C27: a Normal3 is transformed by the inverse-transpose of the matrix: with
\* inv the inverse of an invertible t, component i of the result is
\* inv[0][i] * n.x + inv[1][i] * n.y + inv[2][i] * n.z, which is the Vector3
\* transform, t[i][0] * v.x + t[i][1] * v.y + t[i][2] * v.z, taken with the
\* transpose of the inverse.
C27_NormalByInverseTranspose ==
    op = "transform_normal" =>
        LET t == arg[1]
            nrm == InFamily("Normal", TheRay.d)
        IN  \A inv \in Matrices :
                InverseOf(inv, t) =>
                    /\ res.ok
                    /\ res.val.ty = Normal3
                    /\ \A i \in 0..2 :
                           Comp(res.val, i) =
                               (Entry(inv, 0, i) * nrm.x) + (Entry(inv, 1, i) * nrm.y)
                                   + (Entry(inv, 2, i) * nrm.z)
                    /\ res.val =
                           InFamily("Normal", Vector3_transform(TheRay.d, Transpose(inv)))

\* the normal (4, 5, 6) under a shear: the result is neither the matrix nor
\* its inverse applied the way a Vector3 is transformed
C27_Witness ==
    /\ op = "transform_normal"
    /\ arg = <<ShearMove>>
    /\ TheRay.d = new(Vector3, [x |-> 4, y |-> 5, z |-> 6])
    /\ res = Ok(new(Normal3, [x |-> 4, y |-> 1, z |-> 6]))
    /\ Vector3_transform(TheRay.d, ShearMove) = new(Vector3, [x |-> 9, y |-> 5, z |-> 6])
    /\ Vector3_transform(TheRay.d, ShearMoveBack) = new(Vector3, [x |-> -1, y |-> 5, z |-> 6])

\* t with every t[i][3] and every t[3][j] replaced by b
Bordered(t, b) ==
    [i \in 1..4 |-> [j \in 1..4 |-> IF i = 4 \/ j = 4 THEN b ELSE t[i][j]]]

Borders == {-3, 0, 1}

TransformedRay ==
    op = "transform_ray" =>
        LET r == TheRay
            t == arg[1]
        IN  /\ res.ok
            /\ res.val = RayAt(mem, 1)
            /\ res.val.o = Point3_transform(r.o, t)
            /\ res.val.d = Vector3_transform(r.d, t)
            /\ \A i \in 0..2 :
                   Comp(res.val.d, i) =
                       (Entry(t, i, 0) * r.d.x) + (Entry(t, i, 1) * r.d.y)
                           + (Entry(t, i, 2) * r.d.z)
            /\ \A b \in Borders : Vector3_transform(r.d, Bordered(t, b)) = res.val.d
            /\ res.val.min_t = r.min_t
            /\ res.val.max_t = r.max_t
            /\ res.val.depth = r.depth
            /\ res.val.time = r.time

\* C29: transforming a Ray3 changes only its origin and its direction: o is
\* the Point3 transform of the original o, d the Vector3 transform of the
\* original d, which does not depend on t[i][3] or t[3][j]; min_t, max_t,
\* depth and time are those of the original ray, and the original ray is not
\* modified.
C29_RayTransformFrame ==
    /\ []TransformedRay
    /\ [][RayAt(mem', 0) = RayAt(mem, 0)]_vars

\* a segment moved by (1, 2, 3): the origin moves, the direction does not
C29_Witness ==
    /\ op = "transform_ray"
    /\ arg = <<Move>>
    /\ TheRay = segment(new(Point3, [x |-> 1, y |-> 2, z |-> 3]),
                        new(Vector3, [x |-> 4, y |-> 5, z |-> 6]), 1, 100, 1)
    /\ res.val.o = new(Point3, [x |-> 2, y |-> 4, z |-> 6])
    /\ res.val.d = new(Vector3, [x |-> 4, y |-> 5, z |-> 6])
    /\ res.val.min_t = 1
    /\ res.val.max_t = 100
    /\ res.val.time = 1

\* the homogeneous term is 1 for every point
Affine(t) ==
    /\ Entry(t, 3, 0) = 0
    /\ Entry(t, 3, 1) = 0
    /\ Entry(t, 3, 2) = 0
    /\ Entry(t, 3, 3) = 1

\* C30: for a matrix t with t[3] = (0, 0, 0, 1), r.transform(t).at(s) is
\* r.at(s).transform(t) for every Ray3 r and parameter s; the point transform
\* divides its three coordinates by the homogeneous term w when w is not 1,
\* and only then.
C30_AtCommutesWithAffine ==
    /\ (op = "transform_at" /\ Affine(arg[1])) => res.val.p = res.val.q
    /\ op = "transform_point" =>
           LET t == arg[1]
               o == TheRay.o
               lin(i) == (Entry(t, i, 0) * o.x) + (Entry(t, i, 1) * o.y)
                             + (Entry(t, i, 2) * o.z) + Entry(t, i, 3)
               w == lin(3)
           IN  /\ w # 1 => \A i \in 0..2 : Comp(res.val, i) * w = lin(i)
               /\ w = 1 => \A i \in 0..2 : Comp(res.val, i) = lin(i)

\* the ray from (1, 2, 3) along (4, 5, 6) at 2, sheared and moved
C30_Witness ==
    /\ op = "transform_at"
    /\ arg = <<ShearMove, 2>>
    /\ TheRay.o = new(Point3, [x |-> 1, y |-> 2, z |-> 3])
    /\ TheRay.d = new(Vector3, [x |-> 4, y |-> 5, z |-> 6])
    /\ res.val.p = new(Point3, [x |-> 22, y |-> 14, z |-> 18])
    /\ res.val.q = new(Point3, [x |-> 22, y |-> 14, z |-> 18])


====
